---------------------------- MODULE Spec2Model ----------------------------
(***************************************************************************)
(* A model of UnoSynth's MIDI-to-stereo scheduling engine:                 *)
(*   - the note extractor (ArduinoStereoMidiPlayer._extract_notes),        *)
(*   - the grouper and channel policy (_assign_stereo_channels),           *)
(*   - the serial link (ArduinoConnection) and the GUI player thread       *)
(*     (ArduinoStereoMidiPlayer.play / stop / run / _play_stereo_once),    *)
(*   - the manual triggers of the main window and the pitch bend,          *)
(*   - the command-line players (stereo_midi_player.py, midi_player.py).   *)
(*                                                                         *)
(* Times are integers in microseconds.  mido.tick2second returns           *)
(* tick * tempo * 1e-6 / ticks_per_beat seconds; the tempos and the        *)
(* ticks_per_beat values drawn here divide exactly, so the integer is the  *)
(* value the code computes (floating-point rounding is not modelled,       *)
(* except in the progress percentage, see ProgressOf).                     *)
(***************************************************************************)
EXTENDS Integers, Sequences, FiniteSets, TLC

VARIABLES
    \* ---- extractor walk (one call of _extract_notes) ----
    ex,          \* [notes, current_tempo, current_time, active_notes]
    ex_tpb,      \* midi_file.ticks_per_beat of the file being walked
    ex_track,    \* number of the track being walked (1..)
    ex_count,    \* messages consumed so far in the file
    ex_pc,       \* "walk" | "done"
    ex_out,      \* the sorted list _extract_notes returns
    ex_last,     \* the message consumed by the latest step (NoMsg at first)
    conv,        \* last tick->seconds conversion made in this track, or <<>>
    ex_ons,      \* the note-ons recorded so far: <<track, tick, seconds>>
    ex_offs,     \* number of note-off messages consumed so far
    \* ---- ArduinoConnection ----
    connected,   \* self.connected
    port,        \* self.arduino: "none" | "open" | "closed" (serial object)
    \* ---- ArduinoStereoMidiPlayer ----
    current_file,      \* self.current_file: "None" or a file name
    playing,           \* self.playing
    tempo_multiplier,  \* self.tempo_multiplier, in percent (slider value)
    stereo_mode,       \* self.stereo_mode
    bass_threshold,    \* self.bass_threshold
    active_notes,      \* self.active_notes: channel -> pitch or None
    \* ---- the GUI thread: position inside a handler ----
    gui_pc,      \* "idle" | "stop_send" | "disc_close" | "disc_flag"
    \* ---- the worker thread (run / _play_stereo_once) ----
    w_pc,        \* "idle" | "run" | "group_check" | "sleep" | "ev_check"
                 \* | "send" | "progress" | "finish" | "emit0"
    stereo_notes,      \* local list of (group_time, events)
    w_tempo,     \* the tempo_multiplier argument of _play_stereo_once
    w_i,         \* 1-based index of the current group
    w_j,         \* 1-based index of the current event in the group
    w_k,         \* 1-based index of the next command of the current event
    elapsed,     \* time.time() - start_time, in microseconds
    \* ---- observers and history ----
    progress,    \* last value given to progress_update
    io,          \* what the latest step did: [op, cmd, res, status]
    sent,        \* commands the worker has passed to send_command this run
    first_fail,  \* index in sent of the first failed send (0: none)
    cancelled,   \* stop() was called since this worker was started
    stop_sent,   \* stop() has written STOP and no play() was accepted since
    calls,       \* number of handler calls the GUI thread has made
    inflight,    \* <<w_i, w_j>> of the event being dispatched when stop() cleared
                 \* the flag, or <<>>
    \* ---- one call of _assign_stereo_channels ----
    g_notes,     \* the notes argument: a time-sorted list of notes
    g_pc,        \* "input" | "grouped" | "assigned" | "again"
    g_groups,    \* time_groups: a list of <<anchor, members>>
    g_regroup,   \* time_groups of the anchors of g_groups taken as notes
    g_mode,      \* the stereo_mode argument
    g_thr,       \* the bass_threshold argument
    g_events,    \* the returned list of (group_time, events)
    g_chan,      \* _assign_channel of each note of g_notes under g_mode, g_thr
    g_again,     \* what a second call with the same arguments returns
    \* ---- the command-line players (play_stereo_midi_file / play_midi_file) ----
    gui_arg,     \* the notes a manual trigger of the GUI is playing, <<>> if none
    cl_player,   \* "stereo" (stereo_midi_player.py) | "mono" (midi_player.py)
    cl_pc,       \* "input" | "pass" | "pause" | "done"
    cl_times,    \* the times of the groups (of the notes) to play, ascending
    cl_loop,     \* the loop argument
    cl_pct,      \* the tempo_multiplier argument, in percent
    cl_i,        \* 1-based index of the next group of the pass
    cl_pass,     \* number of passes started
    cl_playing,  \* self.playing
    cl_io,       \* what the latest step did
    pg_n,        \* len(stereo_notes) of the progress computation
    pg_i,        \* number of groups whose progress has been emitted
    pg_out,      \* the progress value emitted last
    \* ---- synth_tui.py, connected ----
    tu_browsing, \* self.browsing_files
    tu_playing,  \* self.playing
    tu_thr,      \* the play_midi_file threads: slot -> [pc, n, i]
    tu_io        \* what the latest step did

exVars == <<ex, ex_tpb, ex_track, ex_count, ex_pc, ex_out, ex_last, conv,
            ex_ons, ex_offs>>

linkVars == <<connected, port>>
cfgVars == <<current_file, tempo_multiplier, stereo_mode, bass_threshold>>
workerVars == <<w_pc, stereo_notes, w_tempo, w_i, w_j, w_k>>
histVars == <<sent, first_fail, cancelled, stop_sent, inflight>>
plVars == <<linkVars, cfgVars, playing, active_notes, gui_pc, gui_arg, workerVars,
            elapsed, progress, io, histVars, calls>>

grVars == <<g_notes, g_pc, g_groups, g_regroup, g_mode, g_thr, g_events, g_chan,
            g_again>>

cliVars == <<cl_player, cl_pc, cl_times, cl_loop, cl_pct, cl_i, cl_pass, cl_playing, cl_io>>

pgVars == <<pg_n, pg_i, pg_out>>

tuVars == <<tu_browsing, tu_playing, tu_thr, tu_io>>

auxVars == <<pgVars, tuVars>>

vars == <<exVars, plVars, grVars, cliVars, auxVars>>

-----------------------------------------------------------------------------
(* Bounds of the model *)

MaxMsgs == 3
MaxTracks == 2
MaxCalls == 5
MaxThreads == 2
MaxTuiNotes == 2

(* Inputs *)
Deltas == {0, 1}
Pitches == {59, 60}
Velocities == {0, 64, 100}
MidiChannels == {0, 1, 9}
Tempos == {200000, 500000}
TicksPerBeats == {20}

(* Program constants *)
DefaultTempo == 500000
DrumChannel == 9

Msgs ==
    [type : {"note_on"}, time : Deltas, note : Pitches,
     velocity : Velocities, channel : MidiChannels, tempo : {0}]
    \cup
    [type : {"note_off"}, time : Deltas, note : Pitches,
     velocity : {0}, channel : MidiChannels, tempo : {0}]
    \cup
    [type : {"set_tempo"}, time : Deltas, note : {0},
     velocity : {0}, channel : {0}, tempo : Tempos]
    \cup
    [type : {"other"}, time : Deltas, note : {0},
     velocity : {0}, channel : {0}, tempo : {0}]

-----------------------------------------------------------------------------
NoMsg ==
    [type |-> "none", time |-> 0, note |-> 0, velocity |-> 0, channel |-> 0,
     tempo |-> 0]

-----------------------------------------------------------------------------
(* Arithmetic helpers *)

Abs(x) == IF x < 0 THEN -x ELSE x

\* Python's int(x / d) for d > 0: truncation towards zero.
Trunc(x, d) == IF x >= 0 THEN x \div d ELSE -((-x) \div d)

Max(a, b) == IF a >= b THEN a ELSE b
Min(a, b) == IF a <= b THEN a ELSE b

-----------------------------------------------------------------------------
(* The note extractor *)

\* mido.tick2second(tick, ticks_per_beat, tempo), in microseconds.
tick2second(tick, tpb, tempo) == (tick * tempo) \div tpb

\* "Skip drum channel".
IsDrum_Never(msg) == FALSE
IsDrum(msg) == msg.channel = DrumChannel

\* key = (msg.note, msg.channel)
Key(msg) == <<msg.note, msg.channel>>

IsNoteOn(msg) == msg.type = "note_on" /\ msg.velocity > 0
IsNoteOff(msg) ==
    msg.type = "note_off" \/ (msg.type = "note_on" /\ msg.velocity = 0)

\* active_notes[key] = (time_seconds, msg.velocity)
PutPending_KeepFirst(active, key, val) ==
    [k \in (DOMAIN active) \cup {key} |->
        IF k \in DOMAIN active THEN active[k] ELSE val]
PutPending(active, key, val) ==
    [k \in (DOMAIN active) \cup {key} |-> IF k = key THEN val ELSE active[k]]

\* del active_notes[key]
DelPending_Keep(active, key) == active
DelPending(active, key) == [k \in (DOMAIN active) \ {key} |-> active[k]]

\* int(duration * 1000) of duration = end_time - start_time (seconds)
DurationMs(start, end) == Trunc(end - start, 1000)

\* The tempo in effect once msg has been seen.
TempoAfter(st, msg) ==
    IF msg.type = "set_tempo" THEN msg.tempo ELSE st.current_tempo

\* The seconds value the extractor computes at msg: the whole absolute tick
\* count of the track times the tempo in effect now.
SecondsAt(st, msg, tpb) ==
    tick2second(st.current_time + msg.time, tpb, TempoAfter(st, msg))

\* One iteration of "for msg in track".
ExtractMsg(st, msg, tpb) ==
    LET t     == st.current_time + msg.time
        tempo == TempoAfter(st, msg)
        base  == [st EXCEPT !.current_time = t, !.current_tempo = tempo]
        key   == Key(msg)
    IN  IF IsNoteOn(msg)
        THEN IF IsDrum(msg)
             THEN base
             ELSE [base EXCEPT !.active_notes =
                      PutPending(st.active_notes, key,
                                 [start |-> SecondsAt(st, msg, tpb),
                                  velocity |-> msg.velocity])]
        ELSE IF IsNoteOff(msg)
        THEN IF IsDrum(msg)
             THEN base
             ELSE IF key \in DOMAIN st.active_notes
                  THEN LET p == st.active_notes[key]
                           end_time == SecondsAt(st, msg, tpb)
                       IN  [base EXCEPT
                              !.notes = Append(st.notes,
                                  [time |-> p.start, note |-> msg.note,
                                   velocity |-> p.velocity,
                                   duration |-> DurationMs(p.start, end_time)]),
                              !.active_notes = DelPending(st.active_notes, key)]
                  ELSE base
        ELSE base

\* "for track in midi_file.tracks": current_time and active_notes start
\* afresh, notes and current_tempo carry over.
StartTrack(st) ==
    [st EXCEPT !.current_time = 0, !.active_notes = <<>>]

\* State at the top of _extract_notes.
ExtractInit ==
    [notes |-> <<>>, current_tempo |-> DefaultTempo,
     current_time |-> 0, active_notes |-> <<>>]

\* sorted(notes, key=lambda x: x[0]): a stable sort on the start time.
RECURSIVE InsertByTime(_, _)
InsertByTime(sorted, n) ==
    IF sorted = <<>> THEN <<n>>
    ELSE IF sorted[Len(sorted)].time <= n.time THEN Append(sorted, n)
    ELSE Append(InsertByTime(SubSeq(sorted, 1, Len(sorted) - 1), n),
                sorted[Len(sorted)])

RECURSIVE SortedByTime(_)
SortedByTime(ns) ==
    IF ns = <<>> THEN <<>>
    ELSE InsertByTime(SortedByTime(SubSeq(ns, 1, Len(ns) - 1)), ns[Len(ns)])

\* Whether the extractor converts the tick of msg to seconds.
Converts(st, msg) ==
    /\ ~IsDrum(msg)
    /\ \/ IsNoteOn(msg)
       \/ IsNoteOff(msg) /\ Key(msg) \in DOMAIN st.active_notes

-----------------------------------------------------------------------------
(* The grouper and the channel policy (actual-duration strategy) *)

TimeTolerance == 50000      \* time_tolerance = 0.05 s
MinDuration == 80           \* max(80, duration)
DefaultBassThreshold == 60

\* The "for note_time, note, velocity, duration in notes" loop: st is
\* [time_groups, current_group, last_time]; a group is <<last_time, members>>.
\* Variants of the loop: one that measures the gap from the group's first
\* note, one that gives every note a group of its own.
RECURSIVE GroupLoop_FromFirst(_, _, _)
GroupLoop_FromFirst(notes, k, st) ==
    IF k > Len(notes) THEN st
    ELSE LET n == notes[k]
             flush == st.current_group # <<>>
                        /\ Abs(n.time - st.last_time) > TimeTolerance
             groups == IF flush
                       THEN Append(st.time_groups,
                                   <<st.last_time, st.current_group>>)
                       ELSE st.time_groups
             cur == IF flush THEN <<>> ELSE st.current_group
         IN  GroupLoop_FromFirst(notes, k + 1,
                 [time_groups |-> groups,
                  current_group |-> Append(cur,
                      [note |-> n.note, velocity |-> n.velocity,
                       duration |-> n.duration]),
                  last_time |-> IF cur = <<>> THEN n.time ELSE st.last_time])

RECURSIVE GroupLoop_EachAlone(_, _, _)
GroupLoop_EachAlone(notes, k, st) ==
    IF k > Len(notes) THEN st
    ELSE LET n == notes[k]
             groups == IF st.current_group # <<>>
                       THEN Append(st.time_groups,
                                   <<st.last_time, st.current_group>>)
                       ELSE st.time_groups
         IN  GroupLoop_EachAlone(notes, k + 1,
                 [time_groups |-> groups,
                  current_group |->
                      <<[note |-> n.note, velocity |-> n.velocity,
                         duration |-> n.duration]>>,
                  last_time |-> n.time])

RECURSIVE GroupLoop(_, _, _)
GroupLoop(notes, k, st) ==
    IF k > Len(notes) THEN st
    ELSE LET n == notes[k]
             flush == st.current_group # <<>>
                        /\ Abs(n.time - st.last_time) > TimeTolerance
             groups == IF flush
                       THEN Append(st.time_groups,
                                   <<st.last_time, st.current_group>>)
                       ELSE st.time_groups
             cur == IF flush THEN <<>> ELSE st.current_group
         IN  GroupLoop(notes, k + 1,
                 [time_groups |-> groups,
                  current_group |-> Append(cur,
                      [note |-> n.note, velocity |-> n.velocity,
                       duration |-> n.duration]),
                  last_time |-> n.time])

\* Variant without the trailing append.
TimeGroups_NoTrailing(notes) ==
    GroupLoop(notes, 1,
        [time_groups |-> <<>>, current_group |-> <<>>,
         last_time |-> -1000000]).time_groups

\* time_groups after the trailing "if current_group: time_groups.append(...)".
\* last_time starts at -1 (seconds).
TimeGroups(notes) ==
    LET st == GroupLoop(notes, 1,
                 [time_groups |-> <<>>, current_group |-> <<>>,
                  last_time |-> -1000000])
    IN  IF st.current_group # <<>>
        THEN Append(st.time_groups, <<st.last_time, st.current_group>>)
        ELSE st.time_groups

\* group_notes.sort(key=lambda x: x[1], reverse=True): stable, loudest first.
RECURSIVE InsertByVelocity(_, _)
InsertByVelocity(sorted, n) ==
    IF sorted = <<>> THEN <<n>>
    ELSE IF sorted[Len(sorted)].velocity >= n.velocity THEN Append(sorted, n)
    ELSE Append(InsertByVelocity(SubSeq(sorted, 1, Len(sorted) - 1), n),
                sorted[Len(sorted)])

SortedByVelocity_AsIs(ns) == ns

RECURSIVE SortedByVelocity(_)
SortedByVelocity(ns) ==
    IF ns = <<>> THEN <<>>
    ELSE InsertByVelocity(SortedByVelocity(SubSeq(ns, 1, Len(ns) - 1)),
                          ns[Len(ns)])

AssignChannel_AlternateRandom(note, mode, threshold, rnd) ==
    IF mode = "bass_split"
    THEN (IF note < threshold THEN 0 ELSE 1)
    ELSE IF mode \in {"random", "alternate"} THEN rnd
    ELSE (IF note < threshold THEN 0 ELSE 1)

AssignChannel_Le(note, mode, threshold, rnd) ==
    IF mode = "random" THEN rnd
    ELSE IF mode = "alternate" THEN note % 2
    ELSE (IF note <= threshold THEN 0 ELSE 1)

AssignChannel_UnknownLeft(note, mode, threshold, rnd) ==
    IF mode \in {"bass_split", "auto"}
    THEN (IF note < threshold THEN 0 ELSE 1)
    ELSE IF mode = "random" THEN rnd
    ELSE IF mode = "alternate" THEN note % 2
    ELSE 0

\* _assign_channel; rnd is the value random.randint(0, 1) returns.
AssignChannel(note, mode, threshold, rnd) ==
    IF mode = "bass_split"
    THEN (IF note < threshold THEN 0 ELSE 1)
    ELSE IF mode = "random" THEN rnd
    ELSE IF mode = "alternate" THEN note % 2
    ELSE (IF note < threshold THEN 0 ELSE 1)

NoteEvent_Left(note, duration, channel, velocity) ==
    [type |-> "note", note |-> note, duration |-> duration,
     channel |-> 0, velocity |-> velocity]

NoteEvent(note, duration, channel, velocity) ==
    [type |-> "note", note |-> note, duration |-> duration,
     channel |-> channel, velocity |-> velocity]

MonoEvent(note, duration, velocity) ==
    [type |-> "mono", note |-> note, duration |-> duration,
     velocity |-> velocity]

ChordEvent_Swapped(n1, n2, duration) ==
    [type |-> "chord", note1 |-> n2.note, note2 |-> n1.note,
     duration |-> duration, vel1 |-> n2.velocity, vel2 |-> n1.velocity]

ChordEvent(n1, n2, duration) ==
    [type |-> "chord", note1 |-> n1.note, note2 |-> n2.note,
     duration |-> duration, vel1 |-> n1.velocity, vel2 |-> n2.velocity]

\* The events of one time group (the body of "for i, (group_time,
\* group_notes) in enumerate(time_groups)").
GroupEvents(group_notes, mode, threshold, rnd) ==
    IF Len(group_notes) = 1
    THEN LET n == group_notes[1]
             base_duration == Max(MinDuration, n.duration)
         IN  IF mode \in {"mono", "sync"}
             THEN <<MonoEvent(n.note, base_duration, n.velocity)>>
             ELSE <<NoteEvent(n.note, base_duration,
                       AssignChannel(n.note, mode, threshold, rnd),
                       n.velocity)>>
    ELSE IF Len(group_notes) = 2
    THEN LET n1 == group_notes[1]
             n2 == group_notes[2]
             base_duration ==
                 Max(MinDuration, Trunc(n1.duration + n2.duration, 2))
         IN  IF mode = "chord"
             THEN <<ChordEvent(n1, n2, base_duration)>>
             ELSE <<NoteEvent(n1.note, base_duration, 0, n1.velocity),
                    NoteEvent(n2.note, base_duration, 1, n2.velocity)>>
    ELSE LET byVel == SortedByVelocity(group_notes)
             n1 == byVel[1]
             n2 == byVel[2]
             base_duration ==
                 Max(MinDuration, Trunc(n1.duration + n2.duration, 2))
         IN  <<ChordEvent(n1, n2, base_duration)>>

AssignStereoChannels_ChordForMono(notes, mode, threshold, rnd) ==
    LET tg == TimeGroups(notes)
    IN  [i \in 1..Len(tg) |->
            [time |-> tg[i][1],
             events |-> GroupEvents(tg[i][2],
                            IF mode \in {"mono", "sync"} THEN "chord" ELSE mode,
                            threshold, rnd[i])]]

\* _assign_stereo_channels: the list of (group_time, events); rnd[i] is the
\* random bit drawn for group i.
AssignStereoChannels(notes, mode, threshold, rnd) ==
    LET tg == TimeGroups(notes)
    IN  [i \in 1..Len(tg) |->
            [time |-> tg[i][1],
             events |-> GroupEvents(tg[i][2], mode, threshold,
                                    rnd[i])]]

\* _extract_notes on a whole file: f is [ticks_per_beat, tracks].
RECURSIVE ExtractTrack(_, _, _, _)
ExtractTrack(st, track, k, tpb) ==
    IF k > Len(track) THEN st
    ELSE ExtractTrack(ExtractMsg(st, track[k], tpb), track, k + 1, tpb)

RECURSIVE ExtractTracks(_, _, _)
ExtractTracks(st, f, t) ==
    IF t > Len(f.tracks) THEN st
    ELSE ExtractTracks(
             ExtractTrack(StartTrack(st), f.tracks[t], 1, f.ticks_per_beat),
             f, t + 1)

ExtractNotes(f) == SortedByTime(ExtractTracks(ExtractInit, f, 1).notes)

-----------------------------------------------------------------------------
(* The serial link and the GUI player thread *)

None == -1      \* Python's None for an active note

TickUs == 50000     \* granularity of the model's clock, in microseconds

NoteOn(dt, note, vel, ch) ==
    [type |-> "note_on", time |-> dt, note |-> note, velocity |-> vel,
     channel |-> ch, tempo |-> 0]
NoteOff(dt, note, ch) ==
    [type |-> "note_off", time |-> dt, note |-> note, velocity |-> 0,
     channel |-> ch, tempo |-> 0]

\* What mido.MidiFile(path) returns for the files of the model; "bad" is a
\* file mido cannot parse.  At 20 ticks per beat and the default tempo a
\* tick is 25 ms.
MidiOf(path) ==
    IF path = "song"
    THEN [ticks_per_beat |-> 20,
          tracks |-> << << NoteOn(0, 59, 64, 0), NoteOn(0, 60, 100, 0),
                           NoteOff(4, 59, 0), NoteOff(0, 60, 0),
                           NoteOn(0, 60, 64, 0), NoteOff(4, 60, 0) >> >>]
    ELSE [ticks_per_beat |-> 20, tracks |-> << <<>> >>]

FileNames == {"song", "empty", "bad"}
Parses(path) == path # "bad"

TempoPcts == {100, 200}
PlayerModes == {"auto", "chord", "mono"}
Thresholds == {60}
Channels == {0, 1}

\* The commands one event puts on the link, in order.  A FREQ command
\* carries f"{midi_to_frequency(note):.2f}", a function of the pitch alone,
\* which is kept here as the pitch.
FreqCmd(note, duration, channel) ==
    [cmd |-> "FREQ", note |-> note, duration |-> duration, channel |-> channel]
MonoCmd(note, duration) ==
    [cmd |-> "MONO", note |-> note, duration |-> duration]
StopCmd == [cmd |-> "STOP"]
NoCmd == [cmd |-> "none"]

\* play_note_on_channel / play_chord / play_mono_note
EventCommands_MonoAsPair(ev) ==
    IF ev.type = "note" THEN <<FreqCmd(ev.note, ev.duration, ev.channel)>>
    ELSE IF ev.type = "chord"
    THEN <<FreqCmd(ev.note1, ev.duration, 0), FreqCmd(ev.note2, ev.duration, 1)>>
    ELSE <<FreqCmd(ev.note, ev.duration, 0), FreqCmd(ev.note, ev.duration, 1)>>

EventCommands(ev) ==
    IF ev.type = "note" THEN <<FreqCmd(ev.note, ev.duration, ev.channel)>>
    ELSE IF ev.type = "chord"
    THEN <<FreqCmd(ev.note1, ev.duration, 0), FreqCmd(ev.note2, ev.duration, 1)>>
    ELSE <<MonoCmd(ev.note, ev.duration)>>

\* ArduinoConnection.send_command: the outcomes it can have now.
\*   "not_connected": returns False before writing;
\*   "error": write raised SerialException, returns False;
\*   "ok": the line was written, returns True.
SendOutcomes ==
    IF ~connected \/ port = "none" THEN {"not_connected"}
    ELSE IF port = "closed" THEN {"error"}
    ELSE {"ok", "error"}

\* The status messages send_command emits for an outcome.
SendStatus_Both(res) ==
    IF res \in {"error", "not_connected"} THEN <<"Error sending command">>
    ELSE <<>>
SendStatus(res) ==
    IF res = "error" THEN <<"Error sending command">> ELSE <<>>

\* The callers in _play_stereo_once drop send_command's return value.
NextAfterSend_Abort(res) == IF res = "ok" THEN "continue" ELSE "abort"
NextAfterSend(res) == "continue"

\* What one step put on the link and on the status observer.
Step(op, cmd, res, status) ==
    [op |-> op, cmd |-> cmd, res |-> res, status |-> status]
Quiet(op) == Step(op, NoCmd, "none", <<>>)

\* The state after construction, with the extractor at the top of
\* _extract_notes.
Init ==
    /\ ex = StartTrack(ExtractInit)
    /\ ex_tpb \in TicksPerBeats
    /\ ex_track = 1
    /\ ex_count = 0
    /\ ex_pc = "walk"
    /\ ex_out = <<>>
    /\ ex_last = NoMsg
    /\ conv = <<>>
    /\ ex_ons = {}
    /\ ex_offs = 0
    /\ g_notes = <<>>
    /\ g_pc = "input"
    /\ g_groups = <<>>
    /\ g_regroup = <<>>
    /\ g_mode = "auto"
    /\ g_thr = DefaultBassThreshold
    /\ g_events = <<>>
    /\ g_chan = <<>>
    /\ g_again = <<>>
    /\ gui_arg = <<>>
    /\ cl_player = "stereo"
    /\ cl_pc = "input"
    /\ cl_times = <<>>
    /\ cl_loop = FALSE
    /\ cl_pct = 100
    /\ cl_i = 1
    /\ cl_pass = 0
    /\ cl_playing = FALSE
    /\ cl_io = [op |-> "init"]
    /\ pg_n = 0
    /\ pg_i = 0
    /\ pg_out = 0
    /\ tu_browsing = FALSE
    /\ tu_playing = FALSE
    /\ tu_thr = [t \in 1..MaxThreads |-> [pc |-> "none", n |-> 0, i |-> 0]]
    /\ tu_io = [op |-> "init", thread |-> 0]
    /\ connected = FALSE
    /\ port = "none"
    /\ current_file = "None"
    /\ playing = FALSE
    /\ tempo_multiplier = 100
    /\ stereo_mode = "auto"
    /\ bass_threshold = DefaultBassThreshold
    /\ active_notes = [c \in Channels |-> None]
    /\ gui_pc = "idle"
    /\ w_pc = "idle"
    /\ stereo_notes = <<>>
    /\ w_tempo = 100
    /\ w_i = 1
    /\ w_j = 1
    /\ w_k = 1
    /\ elapsed = 0
    /\ progress = 0
    /\ io = Quiet("init")
    /\ sent = <<>>
    /\ first_fail = 0
    /\ cancelled = FALSE
    /\ stop_sent = FALSE
    /\ inflight = <<>>
    /\ calls = 0

\* A handler is entered: the GUI thread is between handlers.
Enter ==
    /\ gui_pc = "idle"
    /\ calls < MaxCalls
    /\ calls' = calls + 1

(* ---- handlers run by the GUI thread ---- *)

\* ArduinoConnection.connect_arduino, called by toggle_connection when the
\* link is not connected; serial.Serial(...) may raise.
Connect ==
    /\ Enter
    /\ ~connected
    /\ \E ok \in BOOLEAN :
         IF ok
         THEN /\ port' = "open"
              /\ connected' = TRUE
              /\ io' = Step("connect", NoCmd, "none", <<"Connected to Arduino">>)
         ELSE /\ UNCHANGED <<port, connected>>
              /\ io' = Step("connect", NoCmd, "none", <<"Failed to connect">>)
    /\ UNCHANGED <<cfgVars, playing, active_notes, gui_pc, workerVars,
                   elapsed, progress, histVars>>
    /\ UNCHANGED <<gui_arg, exVars, grVars, cliVars, auxVars>>

\* disconnect_arduino, up to and including send_command("STOP").
DiscSend ==
    /\ Enter
    /\ IF port # "none" /\ connected
       THEN \E res \in SendOutcomes :
               /\ io' = Step("disconnect", StopCmd, res, SendStatus(res))
               /\ gui_pc' = "disc_close"
       ELSE /\ io' = Quiet("disconnect")
            /\ gui_pc' = gui_pc
    /\ UNCHANGED <<linkVars, cfgVars, playing, active_notes, workerVars,
                   elapsed, progress, histVars>>
    /\ UNCHANGED <<gui_arg, exVars, grVars, cliVars, auxVars>>

\* self.arduino.close()
DiscClose ==
    /\ gui_pc = "disc_close"
    /\ port' = "closed"
    /\ gui_pc' = "disc_flag"
    /\ io' = Quiet("disconnect")
    /\ UNCHANGED <<connected, cfgVars, playing, active_notes, workerVars,
                   elapsed, progress, histVars>>
    /\ UNCHANGED <<calls, gui_arg, exVars, grVars, cliVars, auxVars>>

\* self.connected = False and the two signals.
DiscFlag ==
    /\ gui_pc = "disc_flag"
    /\ connected' = FALSE
    /\ gui_pc' = "idle"
    /\ io' = Step("disconnect", NoCmd, "none", <<"Disconnected from Arduino">>)
    /\ UNCHANGED <<port, cfgVars, playing, active_notes, workerVars,
                   elapsed, progress, histVars>>
    /\ UNCHANGED <<calls, gui_arg, exVars, grVars, cliVars, auxVars>>

LoadFile(path) ==
    /\ Enter
    /\ current_file' = path
    /\ io' = Quiet("load_file")
    /\ UNCHANGED <<linkVars, tempo_multiplier, stereo_mode, bass_threshold,
                   playing, active_notes, gui_pc, workerVars, elapsed,
                   progress, histVars>>
    /\ UNCHANGED <<gui_arg, exVars, grVars, cliVars, auxVars>>

SetTempo(pct) ==
    /\ Enter
    /\ tempo_multiplier' = pct
    /\ io' = Quiet("set_tempo")
    /\ UNCHANGED <<linkVars, current_file, stereo_mode, bass_threshold,
                   playing, active_notes, gui_pc, workerVars, elapsed,
                   progress, histVars>>
    /\ UNCHANGED <<gui_arg, exVars, grVars, cliVars, auxVars>>

SetStereoMode(mode) ==
    /\ Enter
    /\ stereo_mode' = mode
    /\ io' = Quiet("set_stereo_mode")
    /\ UNCHANGED <<linkVars, current_file, tempo_multiplier, bass_threshold,
                   playing, active_notes, gui_pc, workerVars, elapsed,
                   progress, histVars>>
    /\ UNCHANGED <<gui_arg, exVars, grVars, cliVars, auxVars>>

SetBassThreshold(threshold) ==
    /\ Enter
    /\ bass_threshold' = threshold
    /\ io' = Quiet("set_bass_threshold")
    /\ UNCHANGED <<linkVars, current_file, tempo_multiplier, stereo_mode,
                   playing, active_notes, gui_pc, workerVars, elapsed,
                   progress, histVars>>
    /\ UNCHANGED <<gui_arg, exVars, grVars, cliVars, auxVars>>

\* "if self.current_file and not self.playing"
PlayGuard_NoFileCheck == ~playing
PlayGuard == current_file # "None" /\ ~playing

\* play(): QThread.start() does nothing when the thread is still running.
Play ==
    /\ Enter
    /\ io' = Quiet("play")
    /\ IF PlayGuard
       THEN /\ playing' = TRUE
            /\ stop_sent' = FALSE
            /\ inflight' = <<>>
            /\ IF w_pc = "idle"
               THEN /\ w_pc' = "run"
                    /\ sent' = <<>>
                    /\ first_fail' = 0
                    /\ cancelled' = FALSE
               ELSE UNCHANGED <<w_pc, sent, first_fail, cancelled>>
       ELSE UNCHANGED <<playing, w_pc, histVars>>
    /\ UNCHANGED <<linkVars, cfgVars, active_notes, gui_pc, stereo_notes,
                   w_tempo, w_i, w_j, w_k, elapsed, progress>>
    /\ UNCHANGED <<gui_arg, exVars, grVars, cliVars, auxVars>>

\* stop(): self.playing = False
StopClear ==
    /\ Enter
    /\ playing' = FALSE
    /\ gui_pc' = "stop_send"
    /\ cancelled' = (cancelled \/ w_pc # "idle")
    /\ inflight' = IF w_pc = "send" THEN <<w_i, w_j>> ELSE <<>>
    /\ stop_sent' = FALSE
    /\ io' = Quiet("stop")
    /\ UNCHANGED <<linkVars, cfgVars, active_notes, workerVars, elapsed,
                   progress, sent, first_fail>>
    /\ UNCHANGED <<gui_arg, exVars, grVars, cliVars, auxVars>>

\* stop(): the STOP command when connected, then the status message.
StopSend ==
    /\ gui_pc = "stop_send"
    /\ gui_pc' = "idle"
    /\ IF connected
       THEN \E res \in SendOutcomes :
               /\ io' = Step("stop", StopCmd, res,
                             SendStatus(res) \o <<"Playback stopped">>)
               /\ stop_sent' = (res = "ok")
       ELSE /\ io' = Step("stop", NoCmd, "none", <<"Playback stopped">>)
            /\ stop_sent' = FALSE
    /\ UNCHANGED <<linkVars, cfgVars, playing, active_notes, workerVars,
                   elapsed, progress, sent, first_fail, cancelled, inflight>>
    /\ UNCHANGED <<calls, gui_arg, exVars, grVars, cliVars, auxVars>>

(* ---- manual triggers of the main window ---- *)

ManualDuration == 500   \* FREQ,<f>,500,<channel>
ChordDuration == 800    \* FREQ,<f>,800,<channel>

Volumes == {128}
ManualNotes == {72}
ChordNotes == {<<60, 64, 67>>}

VolumeCmd(value) == [cmd |-> "VOLUME", value |-> value]

\* update_volume: writes whenever the link is connected.
UpdateVolume(value) ==
    /\ Enter
    /\ IF connected
       THEN \E res \in SendOutcomes :
               io' = Step("volume", VolumeCmd(value), res, SendStatus(res))
       ELSE io' = Quiet("volume")
    /\ UNCHANGED <<linkVars, cfgVars, playing, active_notes, gui_pc, gui_arg,
                   workerVars, elapsed, progress, histVars>>
    /\ UNCHANGED <<exVars, grVars, cliVars, auxVars>>

\* play_manual_note up to the first send_command (channel 0).
PlayManualNote(note) ==
    /\ Enter
    /\ IF ~connected
       THEN /\ io' = Quiet("manual")
            /\ UNCHANGED <<gui_pc, gui_arg>>
       ELSE /\ \E res \in SendOutcomes :
                  io' = Step("manual", FreqCmd(note, ManualDuration, 0), res,
                             SendStatus(res))
            /\ gui_pc' = "manual_second"
            /\ gui_arg' = <<note>>
    /\ UNCHANGED <<linkVars, cfgVars, playing, active_notes, workerVars,
                   elapsed, progress, histVars>>
    /\ UNCHANGED <<exVars, grVars, cliVars, auxVars>>

\* play_manual_note: the second send_command (channel 1).
PlayManualSecond ==
    /\ gui_pc = "manual_second"
    /\ \E res \in SendOutcomes :
          io' = Step("manual", FreqCmd(gui_arg[1], ManualDuration, 1), res,
                     SendStatus(res))
    /\ gui_pc' = "idle"
    /\ gui_arg' = <<>>
    /\ UNCHANGED <<linkVars, cfgVars, playing, active_notes, workerVars,
                   elapsed, progress, histVars>>
    /\ UNCHANGED <<calls, exVars, grVars, cliVars, auxVars>>

\* ArduinoSynthGUI.play_chord up to the first send_command (channel 0).
GuiPlayChord(notes) ==
    /\ Enter
    /\ IF ~connected \/ Len(notes) < 2
       THEN /\ io' = Quiet("chord")
            /\ UNCHANGED <<gui_pc, gui_arg>>
       ELSE /\ \E res \in SendOutcomes :
                  io' = Step("chord", FreqCmd(notes[1], ChordDuration, 0), res,
                             SendStatus(res))
            /\ gui_pc' = "chord_second"
            /\ gui_arg' = notes
    /\ UNCHANGED <<linkVars, cfgVars, playing, active_notes, workerVars,
                   elapsed, progress, histVars>>
    /\ UNCHANGED <<exVars, grVars, cliVars, auxVars>>

\* ArduinoSynthGUI.play_chord: the second send_command (channel 1).
GuiChordSecond ==
    /\ gui_pc = "chord_second"
    /\ \E res \in SendOutcomes :
          io' = Step("chord", FreqCmd(gui_arg[2], ChordDuration, 1), res,
                     SendStatus(res))
    /\ gui_pc' = "idle"
    /\ gui_arg' = <<>>
    /\ UNCHANGED <<linkVars, cfgVars, playing, active_notes, workerVars,
                   elapsed, progress, histVars>>
    /\ UNCHANGED <<calls, exVars, grVars, cliVars, auxVars>>

(* ---- pitch bend ---- *)

BendDuration == 200   \* bend_duration = 200
Semitones == {-1, 2}

\* BEND,<channel>,<target frequency>,<duration ms>; as for FREQ the target is
\* kept as the pitch midi_to_frequency is applied to.
BendCmd(channel, note) ==
    [cmd |-> "BEND", channel |-> channel, note |-> note, duration |-> BendDuration]

\* if self.active_notes[channel] is None: return
BendGuard_Always(channel) == TRUE
BendGuard(channel) == active_notes[channel] # None

\* bent_note = base_note + semitones
BentNote_Unbent(base_note, semitones) == base_note
BentNote(base_note, semitones) == base_note + semitones

BendStep(channel, semitones, cmd, res, status) ==
    [op |-> "bend", cmd |-> cmd, res |-> res, status |-> status,
     channel |-> channel, semitones |-> semitones]

\* apply_pitch_bend(channel, semitones), called between two handlers.
ApplyPitchBend(channel, semitones) ==
    /\ gui_pc = "idle"
    /\ IF BendGuard(channel)
       THEN \E res \in SendOutcomes :
               io' = BendStep(channel, semitones,
                              BendCmd(channel, BentNote(active_notes[channel], semitones)),
                              res, SendStatus(res))
       ELSE io' = BendStep(channel, semitones, NoCmd, "none", <<>>)
    /\ UNCHANGED <<linkVars, cfgVars, playing, active_notes, gui_pc, workerVars,
                   elapsed, progress, histVars>>
    /\ UNCHANGED <<calls, gui_arg, exVars, grVars, cliVars, auxVars>>

(* ---- the worker thread ---- *)

\* run() and the head of _play_stereo_once, up to start_time = time.time().
WRun ==
    /\ w_pc = "run"
    /\ IF current_file = "None"
       THEN /\ w_pc' = "idle"
            /\ io' = Quiet("worker")
            /\ UNCHANGED <<stereo_notes, w_tempo, w_i, w_j, w_k>>
       ELSE IF ~Parses(current_file)
       THEN /\ w_pc' = "idle"
            /\ io' = Step("worker", NoCmd, "none", <<"Error loading MIDI file">>)
            /\ UNCHANGED <<stereo_notes, w_tempo, w_i, w_j, w_k>>
       ELSE \E bit \in {0, 1} :
            /\ stereo_notes' =
                 AssignStereoChannels(ExtractNotes(MidiOf(current_file)),
                     stereo_mode, bass_threshold, [g \in 1..8 |-> bit])
            /\ w_tempo' = tempo_multiplier
            /\ w_i' = 1
            /\ w_j' = 1
            /\ w_k' = 1
            /\ w_pc' = "group_check"
            /\ io' = Step("worker", NoCmd, "none", <<"Playing stereo events">>)
    /\ elapsed' = 0
    /\ UNCHANGED <<linkVars, cfgVars, playing, active_notes, gui_pc,
                   progress, histVars>>
    /\ UNCHANGED <<calls, gui_arg, exVars, grVars, cliVars, auxVars>>

\* "for w_i, (note_time, events) in enumerate(stereo_notes)" and the first
\* "if not self.playing: break".
GroupCancelled == ~playing

WGroupCheck ==
    /\ w_pc = "group_check"
    /\ w_pc' = IF w_i > Len(stereo_notes) \/ GroupCancelled
               THEN "finish" ELSE "sleep"
    /\ io' = Quiet("worker")
    /\ UNCHANGED <<linkVars, cfgVars, playing, active_notes, gui_pc,
                   stereo_notes, w_tempo, w_i, w_j, w_k, elapsed, progress, histVars>>
    /\ UNCHANGED <<calls, gui_arg, exVars, grVars, cliVars, auxVars>>

\* target_time = note_time / tempo_multiplier; the worker goes on once
\* time.time() - start_time has reached it (at once when it is already late).
SleepDone_NoWait(note_time) == TRUE
SleepDone_LiveTempo(note_time) == elapsed * tempo_multiplier >= note_time * 100
SleepDone(note_time) == elapsed * w_tempo >= note_time * 100

WSleep ==
    /\ w_pc = "sleep"
    /\ SleepDone(stereo_notes[w_i].time)
    /\ w_pc' = "ev_check"
    /\ w_j' = 1
    /\ io' = Quiet("worker")
    /\ UNCHANGED <<linkVars, cfgVars, playing, active_notes, gui_pc,
                   stereo_notes, w_tempo, w_i, w_k, elapsed, progress, histVars>>
    /\ UNCHANGED <<calls, gui_arg, exVars, grVars, cliVars, auxVars>>

\* "for event in events" and the second "if not self.playing: break".
EventCancelled_Never == FALSE
EventCancelled == ~playing

WEventCheck ==
    /\ w_pc = "ev_check"
    /\ w_pc' = IF w_j > Len(stereo_notes[w_i].events) \/ EventCancelled
               THEN "progress" ELSE "send"
    /\ w_k' = 1
    /\ io' = Quiet("worker")
    /\ UNCHANGED <<linkVars, cfgVars, playing, active_notes, gui_pc,
                   stereo_notes, w_tempo, w_i, w_j, elapsed, progress, histVars>>
    /\ UNCHANGED <<calls, gui_arg, exVars, grVars, cliVars, auxVars>>

\* One send_command of the current event.  play_note_on_channel records the
\* active note first; play_chord and play_mono_note do not.
WSend ==
    /\ w_pc = "send"
    /\ LET ev   == stereo_notes[w_i].events[w_j]
           cmds == EventCommands(ev)
       IN  /\ active_notes' = IF ev.type = "note"
                              THEN [active_notes EXCEPT ![ev.channel] = ev.note]
                              ELSE active_notes
           /\ \E res \in SendOutcomes :
                /\ io' = Step("worker", cmds[w_k], res, SendStatus(res))
                /\ sent' = Append(sent, <<w_i, w_j, w_k>>)
                /\ first_fail' = IF first_fail = 0 /\ res # "ok"
                                 THEN Len(sent) + 1 ELSE first_fail
                /\ IF NextAfterSend(res) # "continue"
                   THEN /\ w_pc' = "finish"
                        /\ UNCHANGED <<w_j, w_k>>
                   ELSE IF w_k < Len(cmds)
                   THEN /\ w_k' = w_k + 1
                        /\ UNCHANGED <<w_pc, w_j>>
                   ELSE /\ w_pc' = "ev_check"
                        /\ w_j' = w_j + 1
                        /\ w_k' = 1
    /\ UNCHANGED <<linkVars, cfgVars, playing, gui_pc, stereo_notes, w_tempo,
                   w_i, elapsed, progress, cancelled, stop_sent, inflight>>
    /\ UNCHANGED <<calls, gui_arg, exVars, grVars, cliVars, auxVars>>

\* progress = int((w_i / len(stereo_notes)) * 100), w_i counted from 0.
\* computed in double precision as Python does.  With i = w_i - 1 < n:
\*   q = fl(i / n) = i/n + rho / (n * 2^s), s = m + 52, 2^m * i/n in [1, 2);
\*   fl(q * 100) is below the integer k = 100 * i / n only when n divides
\*   100 * i, the quotient was rounded down (rho < 0) and the product
\*   k - 100 * |rho| / (n * 2^s) is not rounded up to k again.
RECURSIVE Pow2(_)
Pow2(e) == IF e = 0 THEN 1 ELSE 2 * Pow2(e - 1)

\* (x * 2^steps) mod n
RECURSIVE DoubleRem(_, _, _)
DoubleRem(x, n, steps) ==
    IF steps = 0 THEN x % n ELSE DoubleRem((2 * x) % n, n, steps - 1)

\* The m with 2^m * i / n in [1, 2), for 0 < i < n.
RECURSIVE BinadeOf(_, _, _)
BinadeOf(i, n, m) == IF Pow2(m) * i >= n THEN m ELSE BinadeOf(i, n, m + 1)

\* The largest j with 2^j < k, from -1 on.
RECURSIVE BinadeBelow(_, _)
BinadeBelow(k, j) == IF Pow2(j + 1) < k THEN BinadeBelow(k, j + 1) ELSE j

\* i / n rounded to 53 bits, to nearest, ties to even: the binade m and the
\* error rho, in units of 1 / (n * 2^(m + 52)).
FloatQuotient(i, n) ==
    LET m == BinadeOf(i, n, 1)
        r == DoubleRem(i, n, m + 52)
        lastBit == (2 * DoubleRem(i, n, m + 51)) \div n
        up == 2 * r > n \/ (2 * r = n /\ lastBit = 1)
    IN  [m |-> m, rho |-> IF up THEN n - r ELSE -r]

\* int(fl(fl(i / n) * 100))
FloatPercent(i, n) ==
    IF i = 0 THEN 0
    ELSE LET q == FloatQuotient(i, n)
             k == (100 * i) \div n
         IN  IF (100 * i) % n # 0 \/ q.rho >= 0 THEN k
             ELSE IF 200 * (-q.rho) <= n * Pow2(q.m + BinadeBelow(k, -1))
             THEN k
             ELSE k - 1

ProgressOf(idx, n) == FloatPercent(idx - 1, n)

WProgress ==
    /\ w_pc = "progress"
    /\ progress' = ProgressOf(w_i, Len(stereo_notes))
    /\ w_i' = w_i + 1
    /\ w_pc' = "group_check"
    /\ io' = Quiet("worker")
    /\ UNCHANGED <<linkVars, cfgVars, playing, active_notes, gui_pc,
                   stereo_notes, w_tempo, w_j, w_k, elapsed, histVars>>
    /\ UNCHANGED <<calls, gui_arg, exVars, grVars, cliVars, auxVars>>

\* self.playing = False after the loop.
FinishFlag_Keep == playing
FinishFlag == FALSE

WFinish ==
    /\ w_pc = "finish"
    /\ playing' = FinishFlag
    /\ w_pc' = "emit0"
    /\ io' = Quiet("worker")
    /\ UNCHANGED <<linkVars, cfgVars, active_notes, gui_pc, stereo_notes,
                   w_tempo, w_i, w_j, w_k, elapsed, progress, histVars>>
    /\ UNCHANGED <<calls, gui_arg, exVars, grVars, cliVars, auxVars>>

\* self.progress_update.emit(0); the thread ends.
WEmit0 ==
    /\ w_pc = "emit0"
    /\ progress' = 0
    /\ w_pc' = "idle"
    /\ elapsed' = 0
    /\ io' = Quiet("worker")
    /\ UNCHANGED <<linkVars, cfgVars, playing, active_notes, gui_pc,
                   stereo_notes, w_tempo, w_i, w_j, w_k, histVars>>
    /\ UNCHANGED <<calls, gui_arg, exVars, grVars, cliVars, auxVars>>

Worker ==
    \/ WRun
    \/ WGroupCheck
    \/ WSleep
    \/ WEventCheck
    \/ WSend
    \/ WProgress
    \/ WFinish
    \/ WEmit0

\* The largest target time a session of the model can have: the last group of
\* "song" starts at tick 4.
Horizon == tick2second(4, 20, DefaultTempo)

\* Time passes while a worker runs.
Tick ==
    /\ w_pc \notin {"idle", "run"}
    /\ elapsed < Horizon
    /\ elapsed' = elapsed + TickUs
    /\ io' = Quiet("tick")
    /\ UNCHANGED <<linkVars, cfgVars, playing, active_notes, gui_pc,
                   workerVars, progress, histVars>>
    /\ UNCHANGED <<calls, gui_arg, exVars, grVars, cliVars, auxVars>>

Gui ==
    \/ Connect
    \/ DiscSend
    \/ DiscClose
    \/ DiscFlag
    \/ \E path \in FileNames : LoadFile(path)
    \/ \E pct \in TempoPcts : SetTempo(pct)
    \/ \E mode \in PlayerModes : SetStereoMode(mode)
    \/ \E threshold \in Thresholds : SetBassThreshold(threshold)
    \/ Play
    \/ StopClear
    \/ StopSend

PlNext == Gui \/ Worker \/ Tick

-----------------------------------------------------------------------------
(* The extractor as a state machine: messages are read one at a time. *)

ExMsg(msg) ==
    /\ ex_pc = "walk"
    /\ ex_count < MaxMsgs
    /\ ex' = ExtractMsg(ex, msg, ex_tpb)
    /\ ex_count' = ex_count + 1
    /\ ex_last' = msg
    /\ conv' = IF Converts(ex, msg)
               THEN <<ex.current_time + msg.time, SecondsAt(ex, msg, ex_tpb)>>
               ELSE conv
    /\ ex_ons' = IF IsNoteOn(msg) /\ ~IsDrum(msg)
                 THEN ex_ons \cup {<<ex_track, ex.current_time + msg.time,
                                     SecondsAt(ex, msg, ex_tpb)>>}
                 ELSE ex_ons
    /\ ex_offs' = IF IsNoteOff(msg) THEN ex_offs + 1 ELSE ex_offs
    /\ UNCHANGED <<ex_tpb, ex_track, ex_pc, ex_out>>
    /\ UNCHANGED <<plVars, grVars, cliVars, auxVars>>

ExNextTrack ==
    /\ ex_pc = "walk"
    /\ ex_track < MaxTracks
    /\ ex' = StartTrack(ex)
    /\ ex_track' = ex_track + 1
    /\ conv' = <<>>
    /\ UNCHANGED <<ex_tpb, ex_count, ex_pc, ex_out, ex_last, ex_ons, ex_offs>>
    /\ UNCHANGED <<plVars, grVars, cliVars, auxVars>>

ExReturn ==
    /\ ex_pc = "walk"
    /\ ex_out' = SortedByTime(ex.notes)
    /\ ex_pc' = "done"
    /\ UNCHANGED <<ex, ex_tpb, ex_track, ex_count, ex_last, conv, ex_ons, ex_offs>>
    /\ UNCHANGED <<plVars, grVars, cliVars, auxVars>>

ExNext ==
    \/ \E msg \in Msgs : ExMsg(msg)
    \/ ExNextTrack
    \/ ExReturn

-----------------------------------------------------------------------------
(* _assign_stereo_channels as a state machine: the caller's time-sorted note
   list is built note by note, then grouped, then handed to the policy. *)

MaxNotes == 3

\* Start-time gaps between consecutive notes, in microseconds.
Gaps == {0, 30000, 60000}

\* (pitch, velocity, duration in ms) of a note.
NoteKinds ==
    { [note |-> 59, velocity |-> 50, duration |-> 0],
      [note |-> 60, velocity |-> 50, duration |-> -13],
      [note |-> 60, velocity |-> 90, duration |-> 200],
      [note |-> 62, velocity |-> 70, duration |-> 121] }

\* The modes the mode selector offers, and a string that is none of them.
StereoModes ==
    {"auto", "bass_split", "chord", "random", "alternate", "mono", "sync"}
UnknownModes == {"surround"}
GroupThresholds == {60, 62}

\* The start time of the latest note of the list (0 for the empty list).
LastStart(notes) == IF notes = <<>> THEN 0 ELSE notes[Len(notes)].time

\* The anchors of a list of groups, as a list of notes.
AnchorNotes(groups) ==
    [i \in 1..Len(groups) |->
        [time |-> groups[i][1], note |-> groups[i][2][1].note,
         velocity |-> groups[i][2][1].velocity,
         duration |-> groups[i][2][1].duration]]

\* The caller's list gets one more note, not earlier than the one before it.
GrNote(gap, kind) ==
    /\ g_pc = "input"
    /\ Len(g_notes) < MaxNotes
    /\ g_notes' = Append(g_notes,
                    [time |-> LastStart(g_notes) + gap, note |-> kind.note,
                     velocity |-> kind.velocity, duration |-> kind.duration])
    /\ UNCHANGED <<g_pc, g_groups, g_regroup, g_mode, g_thr, g_events, g_chan,
                   g_again>>
    /\ UNCHANGED <<exVars, plVars, cliVars, auxVars>>

\* The grouping loop; g_regroup is the same loop run on the anchors.
GrGroup ==
    /\ g_pc = "input"
    /\ g_groups' = TimeGroups(g_notes)
    /\ g_regroup' = TimeGroups(AnchorNotes(g_groups'))
    /\ g_pc' = "grouped"
    /\ UNCHANGED <<g_notes, g_mode, g_thr, g_events, g_chan, g_again>>
    /\ UNCHANGED <<exVars, plVars, cliVars, auxVars>>

\* The policy loop over the groups, and _assign_channel of every note; bit is
\* what random.randint(0, 1) returns.
GrPolicy(mode, threshold, bit) ==
    /\ g_pc = "grouped"
    /\ mode = "random" \/ bit = 0
    /\ g_mode' = mode
    /\ g_thr' = threshold
    /\ g_events' = AssignStereoChannels(g_notes, mode, threshold,
                                        [g \in 1..(MaxNotes + 1) |-> bit])
    /\ g_chan' = [k \in 1..Len(g_notes) |->
                    AssignChannel(g_notes[k].note, mode, threshold, bit)]
    /\ g_pc' = "assigned"
    /\ UNCHANGED <<g_notes, g_groups, g_regroup, g_again>>
    /\ UNCHANGED <<exVars, plVars, cliVars, auxVars>>

\* A second call with the same notes, mode and threshold; random.randint
\* returns bit this time.
GrAgain(bit) ==
    /\ g_pc = "assigned"
    /\ g_again' = AssignStereoChannels(g_notes, g_mode, g_thr,
                                       [g \in 1..(MaxNotes + 1) |-> bit])
    /\ g_pc' = "again"
    /\ UNCHANGED <<g_notes, g_groups, g_regroup, g_mode, g_thr, g_events, g_chan>>
    /\ UNCHANGED <<exVars, plVars, cliVars, auxVars>>

GrNext ==
    \/ \E gap \in Gaps, kind \in NoteKinds : GrNote(gap, kind)
    \/ GrGroup
    \/ \E mode \in StereoModes \cup UnknownModes, threshold \in GroupThresholds,
          bit \in {0, 1} : GrPolicy(mode, threshold, bit)
    \/ \E bit \in {1} : GrAgain(bit)

-----------------------------------------------------------------------------
\* The command-line players: stereo_midi_player.py and midi_player.py.
\* Both play the groups (the stereo player) or the filtered notes (the mono
\* player) of the file in passes; the duration of each comes from the gap to
\* the next one.

MaxGroups == 3
MaxPasses == 2

GapMin == 100         \* max(100, ...)
GapMax == 1000        \* min(1000, ...)
LastDuration == 500   \* base_duration = 500

\* Distances between successive group times, in microseconds; successive
\* groups are more than the tolerance apart.
ClGaps == {60000, 120000, 600000, 1200000}
CliPlayers == {"stereo", "mono"}
CliTempoPcts == {100, 200}
ClOutcomes == {"ok", "fail"}

\* stereo_midi_player.py, _assign_stereo_channels: the duration of group i,
\* max(100, min(1000, int((next_time - group_time) * 1000 * 0.9))).
StereoGapDuration_NoClamp(times, i) ==
    IF i < Len(times)
    THEN Trunc((times[i + 1] - times[i]) * 9, 10000)
    ELSE LastDuration

StereoGapDuration(times, i) ==
    IF i < Len(times)
    THEN Max(GapMin, Min(GapMax, Trunc((times[i + 1] - times[i]) * 9, 10000)))
    ELSE LastDuration

\* midi_player.py, _play_midi_once: the same on the times divided by the
\* tempo multiplier: next_note_time - target_time.
MonoGapDuration(times, i, pct) ==
    IF i < Len(times)
    THEN Max(GapMin, Min(GapMax,
             Trunc((times[i + 1] - times[i]) * 900, 10000 * pct)))
    ELSE LastDuration

GapDuration(player, times, i, pct) ==
    IF player = "stereo"
    THEN StereoGapDuration(times, i)
    ELSE MonoGapDuration(times, i, pct)

\* while True: play once; if not loop: break; time.sleep(1)
AfterPass_Break(loop) == "done"
AfterPass(loop) == IF loop THEN "pause" ELSE "done"

\* A group (a note) of the file, gap after the one before it.
ClGroup(gap) ==
    /\ cl_pc = "input"
    /\ Len(cl_times) < MaxGroups
    /\ cl_times' = Append(cl_times,
                          (IF cl_times = <<>> THEN 0 ELSE cl_times[Len(cl_times)]) + gap)
    /\ cl_io' = [op |-> "group"]
    /\ UNCHANGED <<cl_player, cl_pc, cl_loop, cl_pct, cl_i, cl_pass, cl_playing>>
    /\ UNCHANGED <<exVars, plVars, grVars, auxVars>>

\* play_stereo_midi_file / play_midi_file up to the first pass.
ClStart(player, loop, pct) ==
    /\ cl_pc = "input"
    /\ cl_player' = player
    /\ cl_loop' = loop
    /\ cl_pct' = pct
    /\ cl_playing' = TRUE
    /\ cl_pc' = "pass"
    /\ cl_i' = 1
    /\ cl_pass' = 1
    /\ cl_io' = [op |-> "start"]
    /\ UNCHANGED cl_times
    /\ UNCHANGED <<exVars, plVars, grVars, auxVars>>

\* One iteration of the loop of _play_stereo_once / _play_midi_once.
ClDispatch ==
    /\ cl_pc = "pass"
    /\ cl_i <= Len(cl_times)
    /\ \E res \in ClOutcomes :
          cl_io' = [op |-> "dispatch", group |-> cl_i, res |-> res,
                    duration |-> GapDuration(cl_player, cl_times, cl_i, cl_pct)]
    /\ cl_i' = cl_i + 1
    /\ UNCHANGED <<cl_player, cl_pc, cl_times, cl_loop, cl_pct, cl_pass, cl_playing>>
    /\ UNCHANGED <<exVars, plVars, grVars, auxVars>>

\* The pass returns: break and finally, or "Looping..." and the pause.
ClPassEnd ==
    /\ cl_pc = "pass"
    /\ cl_i > Len(cl_times)
    /\ cl_pc' = AfterPass(cl_loop)
    /\ IF AfterPass(cl_loop) = "done"
       THEN /\ cl_playing' = FALSE
            /\ \E res \in ClOutcomes : cl_io' = [op |-> "end", cmd |-> "STOP", res |-> res]
       ELSE /\ cl_io' = [op |-> "looping"]
            /\ UNCHANGED cl_playing
    /\ UNCHANGED <<cl_player, cl_times, cl_loop, cl_pct, cl_i, cl_pass>>
    /\ UNCHANGED <<exVars, plVars, grVars, auxVars>>

\* time.sleep(1) returns: the next pass.
ClPauseEnd ==
    /\ cl_pc = "pause"
    /\ cl_pass < MaxPasses
    /\ cl_pc' = "pass"
    /\ cl_i' = 1
    /\ cl_pass' = cl_pass + 1
    /\ cl_io' = [op |-> "again"]
    /\ UNCHANGED <<cl_player, cl_times, cl_loop, cl_pct, cl_playing>>
    /\ UNCHANGED <<exVars, plVars, grVars, auxVars>>

\* KeyboardInterrupt inside the try: except, then finally.
ClInterrupt ==
    /\ cl_pc \in {"pass", "pause"}
    /\ cl_pc' = "done"
    /\ cl_playing' = FALSE
    /\ \E res \in ClOutcomes : cl_io' = [op |-> "interrupt", cmd |-> "STOP", res |-> res]
    /\ UNCHANGED <<cl_player, cl_times, cl_loop, cl_pct, cl_i, cl_pass>>
    /\ UNCHANGED <<exVars, plVars, grVars, auxVars>>

ClNext ==
    \/ \E gap \in ClGaps : ClGroup(gap)
    \/ \E player \in CliPlayers, loop \in BOOLEAN, pct \in CliTempoPcts :
          ClStart(player, loop, pct)
    \/ ClDispatch
    \/ ClPassEnd
    \/ ClPauseEnd
    \/ ClInterrupt

-----------------------------------------------------------------------------
\* The progress values of one session as a function of the number of groups.

MaxProgressGroups == 50

\* _play_stereo_once with a list of n groups reaches the loop.
PgStart(n) ==
    /\ pg_n = 0
    /\ pg_n' = n
    /\ UNCHANGED <<pg_i, pg_out>>
    /\ UNCHANGED <<exVars, plVars, grVars, cliVars, tuVars>>

\* progress = int((i / len(stereo_notes)) * 100); emit.
PgEmit ==
    /\ pg_n > 0
    /\ pg_i < pg_n
    /\ pg_out' = ProgressOf(pg_i + 1, pg_n)
    /\ pg_i' = pg_i + 1
    /\ UNCHANGED pg_n
    /\ UNCHANGED <<exVars, plVars, grVars, cliVars, tuVars>>

PgNext ==
    \/ \E n \in 1..MaxProgressGroups : PgStart(n)
    \/ PgEmit

-----------------------------------------------------------------------------
\* synth_tui.py: the file browser starts a play_midi_file thread for every
\* file chosen; the threads share self.playing and the serial link.  The
\* link is connected and the main loop is running.

\* The files of the browser: one mido cannot parse, and files with 1 ..
\* MaxTuiNotes notes.
TuFiles ==
    {[ok |-> FALSE, n |-> 0]} \cup {[ok |-> TRUE, n |-> k] : k \in 1..MaxTuiNotes}

TuThreads == 1..MaxThreads
TuFree == {t \in TuThreads : tu_thr[t].pc = "none"}

\* "if not self.playing or not self.running: break", and the end of the list.
TuLoopEnds(t) == tu_thr[t].i > tu_thr[t].n \/ ~tu_playing

\* show_midi_browser ('m').
TuBrowse ==
    /\ tu_browsing' = TRUE
    /\ tu_io' = [op |-> "browse", thread |-> 0]
    /\ UNCHANGED <<tu_playing, tu_thr>>
    /\ UNCHANGED <<exVars, plVars, grVars, cliVars, pgVars>>

\* handle_browser_input, Enter: threading.Thread(target=play_midi_file).start()
TuSelect(file) ==
    /\ tu_browsing
    /\ TuFree # {}
    /\ LET t == CHOOSE u \in TuFree : \A v \in TuFree : u <= v
       IN  /\ tu_thr' = [tu_thr EXCEPT ![t] =
                            [pc |-> IF file.ok THEN "parse" ELSE "parse_bad",
                             n |-> file.n, i |-> 0]]
           /\ tu_io' = [op |-> "select", thread |-> t]
    /\ tu_browsing' = FALSE
    /\ UNCHANGED tu_playing
    /\ UNCHANGED <<exVars, plVars, grVars, cliVars, pgVars>>

\* play_midi_file: mido.MidiFile(path); self.playing = True; the note list.
\* When the file does not parse the exception goes to "finally".
TuParse(t) ==
    /\ tu_thr[t].pc \in {"parse", "parse_bad"}
    /\ IF tu_thr[t].pc = "parse"
       THEN /\ tu_playing' = TRUE
            /\ tu_thr' = [tu_thr EXCEPT ![t].pc = "check", ![t].i = 1]
       ELSE /\ tu_thr' = [tu_thr EXCEPT ![t].pc = "finally"]
            /\ UNCHANGED tu_playing
    /\ tu_io' = [op |-> "parse", thread |-> t]
    /\ UNCHANGED tu_browsing
    /\ UNCHANGED <<exVars, plVars, grVars, cliVars, pgVars>>

\* The head of the loop over the notes and the wait for the note's time.
TuCheck(t) ==
    /\ tu_thr[t].pc = "check"
    /\ tu_thr' = [tu_thr EXCEPT ![t].pc = IF TuLoopEnds(t) THEN "finally" ELSE "send"]
    /\ tu_io' = [op |-> "check", thread |-> t]
    /\ UNCHANGED <<tu_browsing, tu_playing>>
    /\ UNCHANGED <<exVars, plVars, grVars, cliVars, pgVars>>

\* self.play_mono_note(note, note_duration): one MONO command.
TuSend(t) ==
    /\ tu_thr[t].pc = "send"
    /\ tu_thr' = [tu_thr EXCEPT ![t].pc = "check", ![t].i = tu_thr[t].i + 1]
    /\ tu_io' = [op |-> "mono", thread |-> t]
    /\ UNCHANGED <<tu_browsing, tu_playing>>
    /\ UNCHANGED <<exVars, plVars, grVars, cliVars, pgVars>>

\* finally: self.playing = False; the thread ends.
TuFinally(t) ==
    /\ tu_thr[t].pc = "finally"
    /\ tu_playing' = FALSE
    /\ tu_thr' = [tu_thr EXCEPT ![t] = [pc |-> "none", n |-> 0, i |-> 0]]
    /\ tu_io' = [op |-> "finally", thread |-> t]
    /\ UNCHANGED tu_browsing
    /\ UNCHANGED <<exVars, plVars, grVars, cliVars, pgVars>>

\* stop_playback ('s'): the flag, then STOP.
TuStop ==
    /\ tu_playing' = FALSE
    /\ tu_io' = [op |-> "stop", thread |-> 0]
    /\ UNCHANGED <<tu_browsing, tu_thr>>
    /\ UNCHANGED <<exVars, plVars, grVars, cliVars, pgVars>>

TuNext ==
    \/ TuBrowse
    \/ \E file \in TuFiles : TuSelect(file)
    \/ \E t \in TuThreads : TuParse(t)
    \/ \E t \in TuThreads : TuCheck(t)
    \/ \E t \in TuThreads : TuSend(t)
    \/ \E t \in TuThreads : TuFinally(t)
    \/ TuStop

SpecExtract == Init /\ [][ExNext]_vars

SpecTui == Init /\ [][TuNext]_vars


SpecProgress == Init /\ [][PgNext]_vars


SpecCli == Init /\ [][ClNext]_vars


SpecGroup == Init /\ [][GrNext]_vars

SpecPlayer == Init /\ [][PlNext]_vars

\* The player with the handlers that start and stop a session only; the
\* worker thread, once in the dispatch loop, is scheduled, and time passes.
PlNextCore ==
    \/ Connect
    \/ \E path \in FileNames : LoadFile(path)
    \/ Play
    \/ StopClear
    \/ StopSend
    \/ Worker
    \/ Tick

\* The main window with one file: a session and the manual triggers.
ManualNext ==
    \/ Connect
    \/ LoadFile("song")
    \/ \E mode \in PlayerModes : SetStereoMode(mode)
    \/ Play
    \/ Worker
    \/ Tick
    \/ \E value \in Volumes : UpdateVolume(value)
    \/ \E note \in ManualNotes : PlayManualNote(note)
    \/ PlayManualSecond
    \/ \E notes \in ChordNotes : GuiPlayChord(notes)
    \/ GuiChordSecond

SpecManual == Init /\ [][ManualNext]_vars

\* The player of one file with the pitch bend.
BendNext ==
    \/ Connect
    \/ DiscSend
    \/ DiscClose
    \/ DiscFlag
    \/ LoadFile("song")
    \/ \E mode \in PlayerModes : SetStereoMode(mode)
    \/ Play
    \/ StopClear
    \/ StopSend
    \/ Worker
    \/ Tick
    \/ \E channel \in Channels, semitones \in Semitones :
          ApplyPitchBend(channel, semitones)

SpecBend == Init /\ [][BendNext]_vars

\* The steps of the worker from the top of the dispatch loop on.
WLoop ==
    \/ WGroupCheck
    \/ WSleep
    \/ WEventCheck
    \/ WSend
    \/ WProgress
    \/ WFinish
    \/ WEmit0

FairSpecPlayer ==
    Init /\ [][PlNextCore]_vars
        /\ WF_vars(WLoop) /\ WF_vars(Tick)

-----------------------------------------------------------------------------
(* Properties of the extractor *)

\* The step consumed a message of the track.
ExConsumed == ex_count' = ex_count + 1

\* C8: within one track, the seconds value computed at a later absolute tick
\* is never smaller than the one computed at an earlier tick, and so every
\* emitted note has a duration of at least 0.
C8_MonotoneSeconds ==
    [][ /\ (conv # <<>> /\ conv' # <<>> /\ conv'[1] > conv[1])
            => conv'[2] >= conv[2]
        /\ \A i \in DOMAIN ex'.notes : ex'.notes[i].duration >= 0 ]_vars

\* C9: a note-on or note-off on MIDI channel 9 never creates, completes or
\* removes a pending entry and never emits a note; no pending entry is keyed
\* by channel 9.
C9_DrumChannelIgnored ==
    /\ [](\A k \in DOMAIN ex.active_notes : k[2] # 9)
    /\ [][ (ExConsumed /\ ex_last'.channel = 9
              /\ ex_last'.type \in {"note_on", "note_off"})
            => (ex'.notes = ex.notes /\ ex'.active_notes = ex.active_notes)
         ]_vars

C9_Witness ==
    /\ ex_last.channel = 9
    /\ ex_last.type = "note_on" /\ ex_last.velocity > 0
    /\ ex_count = 3
    /\ DOMAIN ex.active_notes # {}

\* C10: a note-off (or note-on with velocity 0) that finds a pending note-on
\* for its (pitch, channel) emits exactly one note carrying that note-on's
\* start time and velocity and clears the entry; one that finds none changes
\* nothing; no other step emits a note, so a note-on still pending at the end
\* of its track is never emitted.
C10_MatchedPairs ==
    [][ LET m   == ex_last'
            key == <<m.note, m.channel>>
            off == m.type = "note_off" \/ (m.type = "note_on" /\ m.velocity = 0)
        IN  /\ (ExConsumed /\ off /\ key \in DOMAIN ex.active_notes)
                 => /\ Len(ex'.notes) = Len(ex.notes) + 1
                    /\ SubSeq(ex'.notes, 1, Len(ex.notes)) = ex.notes
                    /\ ex'.notes[Len(ex'.notes)].time = ex.active_notes[key].start
                    /\ ex'.notes[Len(ex'.notes)].velocity
                          = ex.active_notes[key].velocity
                    /\ ex'.notes[Len(ex'.notes)].note = m.note
                    /\ DOMAIN ex'.active_notes = (DOMAIN ex.active_notes) \ {key}
                    /\ \A k \in DOMAIN ex'.active_notes :
                          ex'.active_notes[k] = ex.active_notes[k]
            /\ (ExConsumed /\ off /\ key \notin DOMAIN ex.active_notes)
                 => (ex'.notes = ex.notes /\ ex'.active_notes = ex.active_notes)
            /\ ~(ExConsumed /\ off) => ex'.notes = ex.notes
            /\ ex_pc' = "done" => Len(ex_out') = Len(ex.notes)
      ]_vars

C10_Witness ==
    /\ ex_pc = "done"
    /\ Len(ex_out) = 1
    /\ ex_out[1].velocity = 64
    /\ DOMAIN ex.active_notes # {}
    /\ ex_last.type = "note_off"

-----------------------------------------------------------------------------
(* Properties of the GUI player *)

IsPrefix(a, b) == Len(a) <= Len(b) /\ SubSeq(b, 1, Len(a)) = a

\* The <<group, event, command>> indices of a list of groups, in list order.
RECURSIVE CmdIdsOfGroup(_, _, _)
CmdIdsOfGroup(sn, g, e) ==
    IF e > Len(sn[g].events) THEN <<>>
    ELSE [c \in 1..Len(EventCommands(sn[g].events[e])) |-> <<g, e, c>>]
           \o CmdIdsOfGroup(sn, g, e + 1)

RECURSIVE AllCmdIds(_, _)
AllCmdIds(sn, g) ==
    IF g > Len(sn) THEN <<>>
    ELSE CmdIdsOfGroup(sn, g, 1) \o AllCmdIds(sn, g + 1)

\* The step is a send_command of the worker.
WorkerSent == Len(sent') = Len(sent) + 1
\* The step is the second half of stop().
StopSent == gui_pc = "stop_send" /\ gui_pc' = "idle"

InLoop == w_pc \in {"group_check", "sleep", "ev_check", "send", "progress"}
LoopLeft == w_pc \in {"finish", "emit0"}

\* C1 as stated: stop() on a connected link hands STOP to the link, and the
\* worker writes no command after that STOP.
C1_NothingAfterStop ==
    [][ /\ (StopSent /\ connected) => io'.cmd = StopCmd
        /\ (stop_sent /\ WorkerSent) => io'.res # "ok" ]_vars

\* C1 amended: stop() on a connected link hands STOP to the link; until the
\* next accepted play(), every command the worker sends after that STOP
\* belongs to the one event that had passed its flag check when stop()
\* cleared the flag.
C1_OnlyInflightAfterStop ==
    [][ /\ (StopSent /\ connected) => io'.cmd = StopCmd
        /\ (stop_sent /\ WorkerSent) => inflight = <<w_i, w_j>> ]_vars

C1_Witness ==
    /\ stop_sent
    /\ io.op = "worker" /\ io.res = "ok" /\ io.cmd.cmd = "FREQ"
    /\ inflight = <<1, 1>>
    /\ stereo_notes[1].events[1].type = "chord"
    /\ w_pc = "ev_check"

\* C2: a worker that is in the dispatch loop leaves it: it clears playing
\* and then emits progress 0 as its last notification; a flag check that
\* reads a cleared flag dispatches nothing more.
C2_SessionEnds ==
    /\ InLoop ~> (w_pc = "idle" /\ progress = 0)
    /\ [][ /\ (w_pc = "finish" /\ w_pc' # w_pc) => (w_pc' = "emit0" /\ ~playing')
           /\ (w_pc = "emit0" /\ w_pc' # w_pc) => (w_pc' = "idle" /\ progress' = 0)
           /\ (w_pc = "group_check" /\ w_pc' # w_pc /\ ~playing)
               => w_pc' = "finish"
           /\ (w_pc = "ev_check" /\ w_pc' # w_pc /\ ~playing)
               => w_pc' = "progress"
           /\ (w_pc = "group_check" /\ w_pc' # w_pc /\ w_i > Len(stereo_notes))
               => w_pc' = "finish" ]_vars

C2_Witness ==
    /\ w_pc = "emit0" /\ ~playing
    /\ cancelled
    /\ Len(stereo_notes) = 2 /\ Len(sent) = 1

\* C3: play() starts the worker only with a file loaded and the flag clear;
\* otherwise it changes nothing; the worker never starts by any other step.
C3_PlayGuarded ==
    [][ /\ (io'.op = "play" /\ calls' = calls + 1)
            => IF current_file = "None" \/ playing
               THEN UNCHANGED <<linkVars, cfgVars, playing, active_notes,
                                gui_pc, workerVars, elapsed, progress,
                                histVars>>
               ELSE playing' /\ (w_pc = "idle" => w_pc' = "run")
        /\ (w_pc = "idle" /\ w_pc' # "idle")
            => (io'.op = "play" /\ current_file # "None" /\ ~playing) ]_vars

C3_Witness ==
    /\ io.op = "play"
    /\ playing /\ ~cancelled
    /\ w_pc = "send"

\* C4: in a session that is not cancelled the commands go out exactly once
\* and in list order, all of them by the end of the loop, and none of group i
\* before the elapsed time has reached t_i / tempo_multiplier.
C4_InOrderOnTime ==
    /\ [](~cancelled /\ (InLoop \/ LoopLeft)
            => IsPrefix(sent, AllCmdIds(stereo_notes, 1)))
    /\ [](~cancelled /\ LoopLeft => sent = AllCmdIds(stereo_notes, 1))
    /\ [][ WorkerSent
            => /\ elapsed * w_tempo >= stereo_notes[w_i].time * 100
               /\ sent'[Len(sent')] = <<w_i, w_j, w_k>>
               /\ io'.cmd = EventCommands(stereo_notes[w_i].events[w_j])[w_k]
         ]_vars

C4_Witness ==
    /\ ~cancelled
    /\ io.op = "worker" /\ io.cmd # NoCmd
    /\ w_i = 2 /\ w_tempo = 200
    /\ elapsed * w_tempo > stereo_notes[2].time * 100
    /\ Len(sent) = 3

\* C5: when the file cannot be parsed the error is reported once, nothing is
\* sent, and the player is not in the Playing state for that request.
C5_LoadErrorNeverPlaying ==
    [][ (w_pc = "run" /\ w_pc' = "idle" /\ current_file = "bad")
          => /\ io'.status = <<"Error loading MIDI file">>
             /\ io'.cmd = NoCmd /\ sent' = <<>>
             /\ ~playing /\ ~playing' ]_vars

\* C6: a send that fails does not end the session: the worker goes on to the
\* next command, and a session that is not cancelled has sent every command
\* when it leaves the loop.
C6_FailedSendContinues ==
    /\ [](first_fail > 0 /\ ~cancelled /\ LoopLeft
            => sent = AllCmdIds(stereo_notes, 1))
    /\ [][ (WorkerSent /\ io'.res # "ok")
            => /\ w_pc' \in {"send", "ev_check"}
               /\ w_pc' = "send" => (w_k' = w_k + 1 /\ w_j' = w_j)
               /\ w_pc' = "ev_check" => w_j' = w_j + 1 ]_vars

C6_Witness ==
    /\ first_fail = 2 /\ ~connected
    /\ ~cancelled
    /\ w_pc = "emit0"
    /\ Len(sent) = 3

ErrorReports(status) ==
    Cardinality({n \in DOMAIN status : status[n] = "Error sending command"})

\* C7 as stated: every failed send of the worker is reported once.
C7_EveryFailureReported ==
    [][ (WorkerSent /\ io'.res # "ok") => ErrorReports(io'.status) = 1 ]_vars

\* C7 amended: a send whose write raises is reported once; a send made
\* while the link is not connected returns False and reports nothing.
C7_WriteErrorsReported ==
    [][ WorkerSent
          => /\ io'.res = "error" => ErrorReports(io'.status) = 1
             /\ io'.res = "not_connected" => io'.status = <<>>
             /\ io'.res = "ok" => io'.status = <<>>
             /\ io'.res \in {"ok", "error", "not_connected"}
             /\ io'.res = "not_connected" <=> (~connected \/ port = "none")
      ]_vars

C7_Witness ==
    /\ io.op = "worker" /\ io.res = "not_connected"
    /\ io.cmd.cmd = "MONO"
    /\ first_fail = 3

-----------------------------------------------------------------------------
(* Properties of the grouper and of the channel policy *)

Grouped == g_pc # "input"
Assigned == g_pc \in {"assigned", "again"}

\* The number of notes in the groups before group i.
RECURSIVE SizeBefore(_, _)
SizeBefore(groups, i) ==
    IF i <= 1 THEN 0 ELSE SizeBefore(groups, i - 1) + Len(groups[i - 1][2])

\* The positions in g_notes of the first and of the last member of group i.
FirstIdx(i) == SizeBefore(g_groups, i) + 1
LastIdx(i) == SizeBefore(g_groups, i) + Len(g_groups[i][2])

\* The members of all groups, in list order.
RECURSIVE Flatten(_, _)
Flatten(groups, i) ==
    IF i > Len(groups) THEN <<>> ELSE groups[i][2] \o Flatten(groups, i + 1)

\* Notes k and k + 1 of g_notes are in the same group.
Together(k) == \E i \in 1..Len(g_groups) : FirstIdx(i) <= k /\ k + 1 <= LastIdx(i)

\* C11: the groups are the contiguous runs of the note list in which every
\* note starts within 50 ms of the note just before it; a larger gap to the
\* note just before starts a new group.
C11_ContiguousRuns ==
    Grouped =>
        /\ Flatten(g_groups, 1)
             = [k \in 1..Len(g_notes) |->
                   [note |-> g_notes[k].note, velocity |-> g_notes[k].velocity,
                    duration |-> g_notes[k].duration]]
        /\ \A i \in 1..Len(g_groups) : Len(g_groups[i][2]) >= 1
        /\ \A k \in 1..(Len(g_notes) - 1) :
             Together(k) <=> (g_notes[k + 1].time - g_notes[k].time <= 50000)

C11_Witness ==
    /\ Grouped
    /\ Len(g_groups) = 1 /\ Len(g_notes) = 3
    /\ g_notes[3].time - g_notes[1].time > 50000

\* C12 as stated: the anchor of a group is the start time of its first
\* member.
C12_AnchorIsFirst ==
    Grouped =>
        \A i \in 1..Len(g_groups) : g_groups[i][1] = g_notes[FirstIdx(i)].time

\* C12 amended: the anchor of a group is the start time of its last member.
C12_AnchorIsLast ==
    Grouped =>
        \A i \in 1..Len(g_groups) : g_groups[i][1] = g_notes[LastIdx(i)].time

C12_Witness ==
    /\ Grouped
    /\ Len(g_groups) = 2
    /\ Len(g_groups[1][2]) = 2
    /\ g_notes[1].time < g_notes[2].time
    /\ g_groups[1][1] = g_notes[2].time

\* C13: the scheduled times of the groups are strictly increasing along the
\* group list, in time_groups and in the returned list.
C13_AnchorsIncrease ==
    /\ Grouped =>
         \A i \in 1..(Len(g_groups) - 1) : g_groups[i][1] < g_groups[i + 1][1]
    /\ Assigned =>
         /\ Len(g_events) = Len(g_groups)
         /\ \A i \in 1..(Len(g_events) - 1) :
               g_events[i].time < g_events[i + 1].time

C13_Witness ==
    /\ Assigned
    /\ Len(g_events) = 2
    /\ Len(g_groups[1][2]) = 2
    /\ g_notes[1].time = g_notes[2].time

\* C14: grouping the anchors of a grouped result puts every anchor in a group
\* of its own, anchored at that anchor.
C14_RegroupIdempotent ==
    Grouped =>
        /\ Len(g_regroup) = Len(g_groups)
        /\ \A i \in 1..Len(g_groups) :
             /\ g_regroup[i][1] = g_groups[i][1]
             /\ Len(g_regroup[i][2]) = 1

C14_Witness ==
    /\ Grouped
    /\ Len(g_groups) = 2 /\ Len(g_regroup) = 2
    /\ Len(g_groups[2][2]) = 2
    /\ g_groups[2][1] - g_groups[1][1] = 90000

\* The <<pitch, velocity>> pairs a list of events refers to, in order.
RECURSIVE Refs(_, _)
Refs(events, e) ==
    IF e > Len(events) THEN <<>>
    ELSE (IF events[e].type = "chord"
          THEN << <<events[e].note1, events[e].vel1>>,
                  <<events[e].note2, events[e].vel2>> >>
          ELSE << <<events[e].note, events[e].velocity>> >>)
         \o Refs(events, e + 1)

\* The position of the loudest member of ms outside excl, the earliest one
\* among equally loud members.
Loudest(ms, excl) ==
    CHOOSE a \in (DOMAIN ms) \ excl :
        \A b \in (DOMAIN ms) \ excl :
            \/ ms[a].velocity > ms[b].velocity
            \/ ms[a].velocity = ms[b].velocity /\ a <= b

\* The two loudest members of ms, the louder one first.
TopTwo(ms) ==
    LET a == Loudest(ms, {})
        b == Loudest(ms, {a})
    IN  <<ms[a], ms[b]>>

\* C15: the events of a group refer to each of its notes once, in order, when
\* it has one or two notes, and to its two loudest notes (louder first, ties
\* by original order) when it has three or more.
C15_EventsReferToGroup ==
    Assigned =>
        /\ Len(g_events) = Len(g_groups)
        /\ \A i \in 1..Len(g_groups) :
             LET ms == g_groups[i][2]
                 kept == IF Len(ms) <= 2 THEN ms ELSE TopTwo(ms)
             IN  Refs(g_events[i].events, 1)
                   = [k \in 1..Len(kept) |-> <<kept[k].note, kept[k].velocity>>]

C15_Witness ==
    /\ Assigned /\ g_mode = "mono"
    /\ Len(g_groups) = 1 /\ Len(g_groups[1][2]) = 3
    /\ g_groups[1][2][1].velocity = 50
    /\ g_groups[1][2][2].velocity = 90
    /\ g_groups[1][2][3].velocity = 70
    /\ Refs(g_events[1].events, 1) = << <<60, 90>>, <<62, 70>> >>

\* The type, pitches and channel of an event.
Shape(ev) ==
    IF ev.type = "chord" THEN <<"chord", ev.note1, ev.note2>>
    ELSE IF ev.type = "mono" THEN <<"mono", ev.note>>
    ELSE <<"note", ev.note, ev.channel>>

Shapes(events) == [e \in 1..Len(events) |-> Shape(events[e])]

\* C16: one note gives a Mono event under mono and sync and a Note event on
\* the channel _assign_channel gives otherwise; two notes give one Chord
\* event under chord and Note on channel 0 then Note on channel 1 under auto,
\* bass_split, random and alternate.
C16_DecisionTable ==
    Assigned =>
        \A i \in 1..Len(g_groups) :
            LET ms == g_groups[i][2]
                out == Shapes(g_events[i].events)
            IN  /\ (Len(ms) = 1 /\ g_mode \in {"mono", "sync"})
                     => out = << <<"mono", ms[1].note>> >>
                /\ (Len(ms) = 1 /\ g_mode \in StereoModes \ {"mono", "sync"})
                     => out = << <<"note", ms[1].note, g_chan[FirstIdx(i)]>> >>
                /\ (Len(ms) = 2 /\ g_mode = "chord")
                     => out = << <<"chord", ms[1].note, ms[2].note>> >>
                /\ (Len(ms) = 2
                      /\ g_mode \in {"auto", "bass_split", "random", "alternate"})
                     => out = << <<"note", ms[1].note, 0>>,
                                 <<"note", ms[2].note, 1>> >>

C16_Witness ==
    /\ Assigned /\ g_mode = "random"
    /\ Len(g_groups) = 2
    /\ Len(g_groups[1][2]) = 1 /\ Len(g_groups[2][2]) = 2
    /\ g_chan[1] = 1
    /\ g_groups[2][2][1].note = 60 /\ g_groups[2][2][2].note = 59

C19_AssignChannel ==
    Assigned =>
        \A k \in 1..Len(g_notes) :
            LET pitch == g_notes[k].note
            IN  /\ g_mode \in {"bass_split", "auto"}
                     => (g_chan[k] = 0 <=> pitch < g_thr) /\ g_chan[k] \in {0, 1}
                /\ g_mode = "alternate" => g_chan[k] = pitch % 2
                /\ g_mode = "random" => g_chan[k] \in {0, 1}
                /\ (g_mode = "bass_split" /\ g_thr = 60 /\ pitch = 59)
                     => g_chan[k] = 0
                /\ (g_mode = "bass_split" /\ g_thr = 60 /\ pitch = 60)
                     => g_chan[k] = 1

C19_Witness ==
    /\ Assigned /\ g_mode = "bass_split" /\ g_thr = 60
    /\ Len(g_notes) = 2
    /\ g_notes[1].note = 59 /\ g_chan[1] = 0
    /\ g_notes[2].note = 60 /\ g_chan[2] = 1

\* C20: under a mode string that is none of the seven modes the policy
\* returns the events it returns for the same notes and threshold under auto.
C20_UnknownModeIsAuto ==
    (Assigned /\ g_mode \notin StereoModes) =>
        /\ g_events = AssignStereoChannels(g_notes, "auto", g_thr,
                                           [g \in 1..(MaxNotes + 1) |-> 0])
        /\ g_chan = [k \in 1..Len(g_notes) |->
                        AssignChannel(g_notes[k].note, "auto", g_thr, 0)]

C20_Witness ==
    /\ Assigned /\ g_mode = "surround" /\ g_thr = 60
    /\ Len(g_groups) = 2
    /\ Len(g_groups[1][2]) = 1 /\ g_groups[1][2][1].note = 60
    /\ g_events[1].events[1].type = "note"
    /\ g_events[1].events[1].channel = 1
    /\ Len(g_groups[2][2]) = 2

\* C21: for every mode other than random a second call with the same notes,
\* mode and threshold returns the same event list, whatever the random source
\* gives; under alternate equal pitches get equal channels.
C21_DeterministicPolicy ==
    /\ (g_pc = "again" /\ g_mode # "random") => g_again = g_events
    /\ (Assigned /\ g_mode = "alternate") =>
          \A k, l \in 1..Len(g_notes) :
              g_notes[k].note = g_notes[l].note => g_chan[k] = g_chan[l]

C21_Witness ==
    /\ g_pc = "again" /\ g_mode = "alternate"
    /\ Len(g_groups) = 3
    /\ g_notes[1].note = 59 /\ g_notes[3].note = 59 /\ g_notes[2].note = 60
    /\ g_again[1].events[1].channel = 1
    /\ g_again[3].events[1].channel = 1

\* The duration floor of the actual-duration strategy.
AtLeast80(d) == IF d < 80 THEN 80 ELSE d

\* The durations of a list of events.
Durations(events) == [e \in 1..Len(events) |-> events[e].duration]

\* C22 as stated: every Note or Mono event carries max(80, duration of the
\* note it refers to), every Chord event max(80, floor of the mean of its two
\* notes' durations).
C22_OwnDuration ==
    Assigned =>
        \A i \in 1..Len(g_groups) :
            LET ms == g_groups[i][2]
                kept == IF Len(ms) <= 2 THEN ms ELSE TopTwo(ms)
                evs == g_events[i].events
            IN  \A e \in 1..Len(evs) :
                    IF evs[e].type = "chord"
                    THEN evs[e].duration
                           = AtLeast80((kept[1].duration + kept[2].duration) \div 2)
                    ELSE evs[e].duration = AtLeast80(kept[e].duration)

\* What the code computes for C22: the event of a one-note group carries
\* max(80, that note's duration); every event of a larger group, Note or Chord,
\* carries max(80, mean of the durations of the group's two retained notes); no
\* duration is below 80.
C22_DurationFloor ==
    Assigned =>
        \A i \in 1..Len(g_groups) :
            LET ms == g_groups[i][2]
                kept == IF Len(ms) <= 2 THEN ms ELSE TopTwo(ms)
                evs == g_events[i].events
            IN  \A e \in 1..Len(evs) :
                    /\ evs[e].duration >= 80
                    /\ Len(ms) = 1 => evs[e].duration = AtLeast80(ms[1].duration)
                    /\ Len(ms) >= 2
                         => evs[e].duration
                              = AtLeast80((kept[1].duration + kept[2].duration) \div 2)

C22_Witness ==
    /\ Assigned /\ g_mode = "auto"
    /\ Len(g_groups) = 2
    /\ Len(g_groups[1][2]) = 2
    /\ g_groups[1][2][1].duration = 200 /\ g_groups[1][2][2].duration = 0
    /\ Durations(g_events[1].events) = <<100, 100>>
    /\ g_groups[2][2][1].duration = -13
    /\ Durations(g_events[2].events) = <<80>>

\* The duration the formula of the gap-derived strategy gives to group i of
\* times: 0.9 * gap in ms, truncated, clamped to 100..1000; 500 for the last.
GapFormula(times, i) ==
    IF i = Len(times) THEN 500
    ELSE LET raw == ((times[i + 1] - times[i]) * 9) \div 10000
         IN  IF raw < 100 THEN 100 ELSE IF raw > 1000 THEN 1000 ELSE raw

\* C23 as stated: in both command-line players every dispatched group carries
\* the formula's duration for the group times of the file.
C23_GapOfGroupTimes ==
    cl_io.op = "dispatch" => cl_io.duration = GapFormula(cl_times, cl_io.group)

\* C23 amended: the stereo player applies the formula to the group times of
\* the file, the mono player to the times divided by the tempo multiplier;
\* every duration lies in 100..1000 and the last one is 500.
C23_GapDerivedDuration ==
    cl_io.op = "dispatch" =>
        /\ cl_io.duration \in 100..1000
        /\ cl_player = "stereo" =>
              cl_io.duration = GapFormula(cl_times, cl_io.group)
        /\ cl_player = "mono" =>
              cl_io.duration
                = GapFormula([k \in 1..Len(cl_times) |-> (cl_times[k] * 100) \div cl_pct],
                             cl_io.group)

C23_Witness ==
    /\ cl_io.op = "dispatch" /\ cl_player = "stereo" /\ cl_pct = 200
    /\ cl_times = <<60000, 1260000, 1860000>>
    /\ cl_io.group = 2 /\ cl_io.duration = 540

\* C29: a pass that ends with looping configured is followed by the pause and
\* the pause by a pass from the first group, the flag staying set; without
\* looping the end of the first pass ends playback; and whenever playback
\* ends, by the end of the single pass or by an interrupt, STOP is sent and
\* the playing flag is False.
C29_LoopAndStop ==
    [][ /\ (cl_pc = "pass" /\ cl_pc' = "pause")
            => (cl_loop /\ cl_i = Len(cl_times) + 1 /\ cl_playing')
        /\ (cl_pc = "pass" /\ cl_i > Len(cl_times) /\ cl_loop /\ cl_io'.op # "interrupt")
            => cl_pc' = "pause"
        /\ (cl_pc = "pause" /\ cl_io'.op # "interrupt")
            => (cl_pc' = "pass" /\ cl_i' = 1 /\ cl_pass' = cl_pass + 1 /\ cl_playing')
        /\ (cl_pc = "pass" /\ cl_pc' = "pass")
            => (cl_i' = cl_i + 1 /\ cl_io'.group = cl_i /\ cl_pass' = cl_pass)
        /\ (cl_pc = "pass" /\ cl_i > Len(cl_times) /\ ~cl_loop)
            => (cl_pc' = "done" /\ cl_pass = 1)
        /\ (cl_pc # "done" /\ cl_pc' = "done")
            => (cl_io'.cmd = "STOP" /\ ~cl_playing')
        /\ (cl_pc \in {"pass", "pause"} /\ cl_pc' # "done") => cl_playing'
      ]_vars

C29_Witness ==
    /\ cl_pc = "done" /\ cl_loop /\ cl_pass = 2 /\ cl_i = 2
    /\ Len(cl_times) = 2 /\ cl_io.op = "interrupt" /\ ~cl_playing

\* C24: a bend request for a channel without an active note writes nothing,
\* reports nothing and changes no state of the player.
C24_BendWithoutNote ==
    [][ (io'.op = "bend" /\ active_notes[io'.channel] = None)
          => /\ io'.cmd = NoCmd /\ io'.res = "none" /\ io'.status = <<>>
             /\ UNCHANGED <<linkVars, cfgVars, playing, active_notes, gui_pc,
                            workerVars, elapsed, progress, histVars>>
      ]_vars

C24_Witness ==
    /\ io.op = "bend" /\ io.cmd = NoCmd
    /\ connected /\ port = "open"
    /\ active_notes[io.channel] = None
    /\ active_notes[1 - io.channel] # None

\* C25: when the worker dispatches a Note event on channel c the active note
\* of c becomes its pitch; when it dispatches a Mono event the active note of
\* both channels becomes its pitch.
C25_DispatchRecordsActive ==
    [][ WorkerSent
          => LET ev == stereo_notes[w_i].events[w_j]
             IN  /\ ev.type = "note" => active_notes'[ev.channel] = ev.note
                 /\ ev.type = "mono" => \A c \in Channels : active_notes'[c] = ev.note
      ]_vars

\* C26: a step of stop() or of the disconnection leaves no active note on
\* either channel, and a bend request right after stop() writes nothing.
C26_ClearedOnStop ==
    [][ /\ io'.op \in {"stop", "disconnect"}
            => \A c \in Channels : active_notes'[c] = None
        /\ (io.op = "stop" /\ io'.op = "bend") => io'.cmd = NoCmd
      ]_vars

\* C27: a bend request for a channel with an active note hands exactly one
\* BEND command to the link, for that channel, with target active note plus
\* semitones and 200 ms, and leaves the active notes as they were; a second
\* bend by the same offset right after it gives the same command.
C27_BendKeepsActive ==
    [][ (io'.op = "bend" /\ active_notes[io'.channel] # None)
          => /\ io'.cmd = [cmd |-> "BEND", channel |-> io'.channel,
                           note |-> active_notes[io'.channel] + io'.semitones,
                           duration |-> 200]
             /\ io'.res \in SendOutcomes
             /\ active_notes' = active_notes
             /\ (io.op = "bend" /\ io.channel = io'.channel
                 /\ io.semitones = io'.semitones)
                   => io'.cmd = io.cmd
      ]_vars

C27_Witness ==
    /\ io.op = "bend" /\ io.res = "ok" /\ playing
    /\ io.semitones = 2
    /\ io.cmd.cmd = "BEND"
    /\ io.cmd.note = active_notes[io.channel] + 2
    /\ io.cmd.channel = io.channel

\* C28: the worker turns a Note into exactly one FREQ command on the event's
\* channel, a Mono into exactly one MONO command, and a Chord into exactly two
\* FREQ commands, channel 0 with the first note and then channel 1 with the
\* second, both with the chord's duration.
C28_CommandsOfEvent ==
    [][ WorkerSent
          => LET ev == stereo_notes[w_i].events[w_j]
                 eventDone == w_pc' = "ev_check" /\ w_j' = w_j + 1 /\ w_k' = 1
             IN  /\ ev.type = "note"
                      => /\ w_k = 1 /\ eventDone
                         /\ io'.cmd = [cmd |-> "FREQ", note |-> ev.note,
                                       duration |-> ev.duration, channel |-> ev.channel]
                 /\ ev.type = "mono"
                      => /\ w_k = 1 /\ eventDone
                         /\ io'.cmd = [cmd |-> "MONO", note |-> ev.note,
                                       duration |-> ev.duration]
                 /\ ev.type = "chord"
                      => /\ w_k \in {1, 2}
                         /\ w_k = 1
                              => /\ w_pc' = "send" /\ w_j' = w_j /\ w_k' = 2
                                 /\ io'.cmd = [cmd |-> "FREQ", note |-> ev.note1,
                                               duration |-> ev.duration, channel |-> 0]
                         /\ w_k = 2
                              => /\ eventDone
                                 /\ io'.cmd = [cmd |-> "FREQ", note |-> ev.note2,
                                               duration |-> ev.duration, channel |-> 1]
      ]_vars

C28_Witness ==
    /\ stereo_mode = "chord"
    /\ io.op = "worker" /\ io.res = "ok"
    /\ io.cmd.cmd = "FREQ" /\ io.cmd.channel = 1
    /\ Len(sent) >= 2
    /\ sent[Len(sent)][3] = 2
    /\ sent[Len(sent) - 1][3] = 1

\* The step hands a command of a manual trigger to the link and it is written.
ManualWrite == io'.op \in {"volume", "manual", "chord"} /\ io'.res = "ok"

\* C30: while a session is playing no command of the volume control, of a
\* manual note or of a chord button is written: the worker is the only writer.
C30_SingleWriter ==
    [][ ManualWrite => ~(playing /\ InLoop) ]_vars

\* C31 as stated: after the group at zero-based index i of N the worker emits
\* floor(100 * i / N); the values of a session do not decrease and stay in
\* 0..99.
C31_ProgressIsFloor ==
    [][ pg_i' = pg_i + 1
          => /\ pg_out' = (100 * pg_i) \div pg_n
             /\ pg_out' >= pg_out
             /\ pg_out' \in 0..99
      ]_vars

\* What the code computes for C31: the value is floor(100 * i / N) or one
\* less, does not decrease, stays in 0..99, and the session ends with 0.
C31_ProgressWithinOne ==
    [][ /\ pg_i' = pg_i + 1
          => /\ pg_out' \in {(100 * pg_i) \div pg_n, (100 * pg_i) \div pg_n - 1}
             /\ pg_out' >= pg_out
             /\ pg_out' \in 0..99
        /\ (w_pc = "progress" /\ w_pc' = "group_check")
          => /\ progress' = (100 * (w_i - 1)) \div Len(stereo_notes)
             /\ progress' >= progress
             /\ progress' \in 0..99
        /\ (w_pc = "emit0" /\ w_pc' = "idle") => progress' = 0
      ]_vars

\* C32: whenever the worker thread is not running the playing flag is False,
\* so a play() with a loaded file while no worker runs starts a session.
C32_IdleNotPlaying ==
    /\ [](w_pc = "idle" => ~playing)
    /\ [][ (io'.op = "play" /\ w_pc = "idle" /\ current_file # "None")
             => (w_pc' = "run" /\ playing') ]_vars

\* C33: the worker of a session that stop() has cancelled passes no further
\* flag check to dispatch an event, and an accepted play() starts a worker
\* from the first group of the loaded file.
C33_StoppedSessionEnds ==
    [][ /\ (w_pc = "ev_check" /\ w_pc' = "send") => ~cancelled
        /\ (io'.op = "play" /\ ~playing /\ playing') => w_pc' = "run"
      ]_vars

\* The step is load_file, set_tempo, set_stereo_mode or set_bass_threshold.
ConfigStep ==
    io'.op \in {"load_file", "set_tempo", "set_stereo_mode", "set_bass_threshold"}

\* The worker has read the configuration and not yet ended.
WorkerStarted == w_pc \notin {"idle", "run"}

TuDispatching == {t \in TuThreads : tu_thr[t].pc \in {"check", "send"}}

\* C35: at most one play_midi_file thread is dispatching at any time, and the
\* end of one playback does not clear the playing flag while another thread
\* is dispatching.
C35_OnePlaybackThread ==
    /\ [](Cardinality(TuDispatching) <= 1)
    /\ [][ (tu_io'.op = "finally" /\ TuDispatching # {}) => tu_playing' = tu_playing ]_vars

\* C36: two note-ons at the same absolute tick of two different tracks are
\* recorded with the same start time in seconds.
C36_SameTickSameSeconds ==
    \A a, b \in ex_ons : (a[1] # b[1] /\ a[2] = b[2]) => a[3] = b[3]

\* C37: a note-on for a key that is pending in the track replaces the pending
\* entry by its own start time and velocity and emits nothing; every emitted
\* note is emitted by one note-off message, so there are never more notes
\* than note-off messages; a new track starts with no pending entry.
C37_LaterNoteOnWins ==
    /\ [](Len(ex.notes) <= ex_offs)
    /\ [][ LET m   == ex_last'
               key == <<m.note, m.channel>>
           IN  /\ (ExConsumed /\ m.type = "note_on" /\ m.velocity > 0
                     /\ m.channel # 9 /\ key \in DOMAIN ex.active_notes)
                    => /\ ex'.active_notes[key]
                            = [start |-> tick2second(ex'.current_time, ex_tpb,
                                                     ex'.current_tempo),
                               velocity |-> m.velocity]
                       /\ DOMAIN ex'.active_notes = DOMAIN ex.active_notes
                       /\ \A k \in DOMAIN ex.active_notes \ {key} :
                             ex'.active_notes[k] = ex.active_notes[k]
                       /\ ex'.notes = ex.notes
               /\ Len(ex'.notes) > Len(ex.notes)
                    => (Len(ex'.notes) = Len(ex.notes) + 1 /\ ex_offs' = ex_offs + 1)
               /\ ex_track' # ex_track
                    => (ex'.active_notes = <<>> /\ ex'.notes = ex.notes)
         ]_vars

C37_Witness ==
    /\ ex_count = 3 /\ ex_offs = 1
    /\ Len(ex.notes) = 1
    /\ ex.notes[1].velocity = 100
    /\ ex.notes[1].time > 0
    /\ ex_ons = {<<1, 0, 0>>, <<1, 1, ex.notes[1].time>>}

\* C38: disconnect_arduino on a connected link hands STOP to the link as the
\* last command: from that step on, and for as long as the link stays
\* disconnected, no step writes a command, and every send made while the
\* link is disconnected returns False without reaching the port; a
\* disconnect on a link that is not connected sends nothing.
Disconnecting == gui_pc \in {"disc_close", "disc_flag"}

C38_StopLastUntilReconnect ==
    [][ /\ (io'.op = "disconnect" /\ gui_pc = "idle" /\ connected
              /\ port # "none")
            => (io'.cmd = StopCmd /\ Disconnecting')
        /\ (Disconnecting \/ ~connected) => io'.res # "ok"
        /\ ~connected => io'.res \in {"none", "not_connected"}
        /\ (io'.op = "disconnect" /\ gui_pc = "idle" /\ ~connected)
            => io' = Quiet("disconnect")
      ]_vars

\* C38, the part that holds with a session running: the disconnecting
\* thread writes nothing after its STOP, the only writes between the STOP and
\* the cleared flag are the worker's and none of them succeeds once the port
\* is closed, and with the flag cleared no send reaches the port.
C38_DisconnectedSendsNothing ==
    [][ /\ (io'.op = "disconnect" /\ gui_pc = "idle" /\ connected
              /\ port # "none")
            => (io'.cmd = StopCmd /\ Disconnecting')
        /\ (Disconnecting /\ io'.res \in {"ok", "error"}) => io'.op = "worker"
        /\ gui_pc = "disc_flag" => io'.res # "ok"
        /\ (~connected /\ gui_pc = "idle") => io'.res \in {"none", "not_connected"}
        /\ (io'.op = "disconnect" /\ gui_pc = "idle" /\ ~connected)
            => io' = Quiet("disconnect")
      ]_vars

\* A worker command written after the STOP of a disconnect in progress.
C38_WriteAfterStop ==
    /\ gui_pc = "disc_close"
    /\ io.op = "worker" /\ io.res = "ok"
    /\ port = "open" /\ connected

=============================================================================
